---- MODULE Spec2Model ----
(***************************************************************************)
(* Model of the form-processing pipeline of src/main.py and                *)
(* src/modules/field_validator.py: OCR -> projection -> extraction call -> *)
(* schema merge -> validation -> result record.                            *)
(*                                                                         *)
(* Specifications:                                                         *)
(*   SpecMerge  _ensure_schema_compliance applied to one parsed JSON value *)
(*   Spec       one client running process_batch calls                     *)
(*   SpecCalls  one client calling process_form / validate_fields in turn  *)
(*   SpecPar    two sessions calling process_form on a shared processor    *)
(*                                                                         *)
(* Python values are tagged records [t, v]:                                *)
(*   null, bool, num, str, list (sequence of values),                      *)
(*   obj (a dict: sequence of <<key, value>> pairs in insertion order),    *)
(*   exc (a raised exception, v = its class name or message).              *)
(***************************************************************************)
EXTENDS Integers, Sequences, FiniteSets, TLC

(***************************************************************************)
(* Bounds                                                                  *)
(***************************************************************************)
\* keys per object returned by the extraction model
MaxKeys == 2
\* documents per process_batch call
MaxDocs == 2
\* words per OCR result
MaxWords == 2
\* calls a client makes on one FormProcessor
MaxCalls == 2

\* pieces a text handed to _clean_ocr_artifacts is made of
MaxChunks == 4

\* entries of a polygon handed to _normalize_polygon
MaxPoints == 3
MaxLines == 3

\* selection marks of a page handed to _prepare_ocr_text_for_gpt
MaxMarks == 2

(***************************************************************************)
(* Python / JSON values                                                    *)
(***************************************************************************)
Null == [t |-> "null", v |-> 0]
Str(s) == [t |-> "str", v |-> s]
Num(n) == [t |-> "num", v |-> n]
Bool(b) == [t |-> "bool", v |-> b]
List(l) == [t |-> "list", v |-> l]
Obj(kv) == [t |-> "obj", v |-> kv]
Exc(e) == [t |-> "exc", v |-> e]

IsExc(x) == x.t = "exc"

\* s.find(sub) >= 0 for Python strings
Contains(s, sub) ==
    \E i \in 1..(Len(s) - Len(sub) + 1) : SubSeq(s, i, i + Len(sub) - 1) = sub

\* s.startswith(p)
StartsWith(s, p) == Len(s) >= Len(p) /\ SubSeq(s, 1, Len(p)) = p

\* dict: key in d
HasKey(d, key) == \E i \in 1..Len(d.v) : d.v[i][1] = key

\* dict: d[key] / d.get(key) for a present key
Lookup(d, key) == d.v[CHOOSE i \in 1..Len(d.v) : d.v[i][1] = key][2]

\* dict: d.get(key, default)
DictGet(d, key, default) == IF HasKey(d, key) THEN Lookup(d, key) ELSE default

RECURSIVE JoinWith(_, _)
JoinWith(strs, sep) ==
    IF strs = <<>> THEN ""
    ELSE IF Len(strs) = 1 THEN strs[1]
    ELSE strs[1] \o sep \o JoinWith(Tail(strs), sep)

\* repr(x) of a value decoded from JSON
RECURSIVE PyRepr(_)
PyRepr(x) ==
    CASE x.t = "null" -> "None"
      [] x.t = "bool" -> (IF x.v THEN "True" ELSE "False")
      [] x.t = "num"  -> ToString(x.v)
      [] x.t = "str"  -> "'" \o x.v \o "'"
      [] x.t = "list" ->
            "[" \o JoinWith([i \in 1..Len(x.v) |-> PyRepr(x.v[i])], ", ") \o "]"
      [] x.t = "obj"  ->
            "{" \o JoinWith([i \in 1..Len(x.v) |->
                      "'" \o x.v[i][1] \o "': " \o PyRepr(x.v[i][2])], ", ") \o "}"

\* str(x)
PyStr(x) == IF x.t = "str" THEN x.v ELSE PyRepr(x)

\* `key in x` where key is a str: a dict tests its keys, a list its
\* elements, a str its substrings; None, numbers and booleans raise TypeError
SupportsIn(x) == x.t \in {"obj", "list", "str"}

KeyIn(key, x) ==
    CASE x.t = "obj"  -> HasKey(x, key)
      [] x.t = "list" -> \E i \in 1..Len(x.v) : x.v[i] = Str(key)
      [] x.t = "str"  -> Contains(x.v, key)

(***************************************************************************)
(* FormProcessor._get_empty_result                                         *)
(***************************************************************************)
DateTemplate == Obj(<< <<"day", Str("")>>, <<"month", Str("")>>, <<"year", Str("")>> >>)

_get_empty_result ==
    Obj(<< <<"lastName", Str("")>>,
           <<"firstName", Str("")>>,
           <<"idNumber", Str("")>>,
           <<"gender", Str("")>>,
           <<"dateOfBirth", DateTemplate>>,
           <<"address", Obj(<< <<"street", Str("")>>, <<"houseNumber", Str("")>>,
                              <<"entrance", Str("")>>, <<"apartment", Str("")>>,
                              <<"city", Str("")>>, <<"postalCode", Str("")>>,
                              <<"poBox", Str("")>> >>)>>,
           <<"landlinePhone", Str("")>>,
           <<"mobilePhone", Str("")>>,
           <<"jobType", Str("")>>,
           <<"dateOfInjury", DateTemplate>>,
           <<"timeOfInjury", Str("")>>,
           <<"accidentLocation", Str("")>>,
           <<"accidentAddress", Str("")>>,
           <<"accidentDescription", Str("")>>,
           <<"injuredBodyPart", Str("")>>,
           <<"signature", Str("")>>,
           <<"formFillingDate", DateTemplate>>,
           <<"formReceiptDateAtClinic", DateTemplate>>,
           <<"medicalInstitutionFields",
             Obj(<< <<"healthFundMember", Str("")>>,
                    <<"natureOfAccident", Str("")>>,
                    <<"medicalDiagnoses", Str("")>> >>)>> >>)

(***************************************************************************)
(* FormProcessor._ensure_schema_compliance                                 *)
(***************************************************************************)
\* a leaf kept as the model returned it, without str()
MergeLeafNoStr(extracted, key) ==
    LET extracted_value == Lookup(extracted, key)
    IN  IF extracted_value \notin {Null, Str("null")}
        THEN extracted_value
        ELSE Str("")

\* a leaf where only None, not the text "null", becomes ""
MergeLeafKeepNullText(extracted, key) ==
    LET extracted_value == Lookup(extracted, key)
    IN  IF extracted_value # Null
        THEN Str(PyStr(extracted_value))
        ELSE Str("")

\* the leaf branch of merge_with_template (main.py 311-314)
MergeLeaf(extracted, key) ==
    LET extracted_value == Lookup(extracted, key)
    IN  IF extracted_value \notin {Null, Str("null")}
        THEN Str(PyStr(extracted_value))
        ELSE Str("")

\* a loop over the items of extracted instead of the template's
ExtractedItems(extracted, template) ==
    IF extracted.t = "obj" THEN extracted.v ELSE template.v

\* `for key, value in template.items()` (main.py 304)
MergeItems(extracted, template) == template.v

RECURSIVE merge_with_template(_, _)
merge_with_template(extracted, template) ==
    IF template.t = "obj"
    THEN LET items == MergeItems(extracted, template)
         IN  IF items = <<>> THEN Obj(<<>>)
             ELSE IF ~SupportsIn(extracted) THEN Exc("TypeError")
             ELSE LET entry(i) ==
                        LET key == items[i][1]
                            value == items[i][2]
                        IN  IF KeyIn(key, extracted)
                            THEN IF extracted.t # "obj"
                                 THEN Exc("AttributeError")  \* str/list has no .get
                                 ELSE IF value.t = "obj"
                                      THEN merge_with_template(
                                               DictGet(extracted, key, Obj(<<>>)), value)
                                      ELSE MergeLeaf(extracted, key)
                            ELSE value
                      entries == [i \in 1..Len(items) |-> entry(i)]
                      raised == {i \in 1..Len(items) : IsExc(entries[i])}
                  IN  IF raised # {}
                      THEN entries[CHOOSE i \in raised : \A j \in raised : i <= j]
                      ELSE Obj([i \in 1..Len(items) |-> <<items[i][1], entries[i]>>])
    ELSE IF extracted # Null THEN extracted ELSE template

_ensure_schema_compliance(data) == merge_with_template(data, _get_empty_result)

(***************************************************************************)
(* Text helpers                                                            *)
(***************************************************************************)
IsSpace(c) == c \in {" ", "\t", "\n", "\r", "\f"}

IsDigit(c) == c \in {"0", "1", "2", "3", "4", "5", "6", "7", "8", "9"}

CharAt(s, i) == SubSeq(s, i, i)

\* the concatenation of a sequence of sequences
RECURSIVE Flatten(_)
Flatten(seqs) == IF seqs = <<>> THEN <<>> ELSE Head(seqs) \o Flatten(Tail(seqs))

RECURSIVE LStrip(_)
LStrip(s) ==
    IF Len(s) > 0 /\ IsSpace(SubSeq(s, 1, 1)) THEN LStrip(SubSeq(s, 2, Len(s))) ELSE s

RECURSIVE RStrip(_)
RStrip(s) ==
    IF Len(s) > 0 /\ IsSpace(SubSeq(s, Len(s), Len(s)))
    THEN RStrip(SubSeq(s, 1, Len(s) - 1)) ELSE s

\* s.strip()
PyStrip(s) == RStrip(LStrip(s))

\* ''.join(filter(str.isdigit, s))
RECURSIVE DigitsOf(_)
DigitsOf(s) ==
    IF Len(s) = 0 THEN ""
    ELSE (IF IsDigit(SubSeq(s, 1, 1)) THEN SubSeq(s, 1, 1) ELSE "")
             \o DigitsOf(SubSeq(s, 2, Len(s)))

\* s.split('.')
RECURSIVE SplitDot(_)
SplitDot(s) ==
    IF \E i \in 1..Len(s) : SubSeq(s, i, i) = "."
    THEN LET i == CHOOSE k \in 1..Len(s) :
                      /\ SubSeq(s, k, k) = "."
                      /\ \A j \in 1..(k - 1) : SubSeq(s, j, j) # "."
         IN  <<SubSeq(s, 1, i - 1)>> \o SplitDot(SubSeq(s, i + 1, Len(s)))
    ELSE <<s>>

(***************************************************************************)
(* Scores: Python floats kept as reduced fractions <<numerator, denom>>    *)
(***************************************************************************)
RECURSIVE GCD(_, _)
GCD(a, b) == IF b = 0 THEN a ELSE GCD(b, a % b)

Rat(n, d) == LET g == GCD(n, d) IN IF g = 0 THEN <<0, 1>> ELSE <<n \div g, d \div g>>

(***************************************************************************)
(* FieldValidator                                                          *)
(* The validator's two lists are objects on a heap (a function from list   *)
(* identities to contents), so that a list handed out to a caller stays    *)
(* the same object as the one the validator appends to.                    *)
(* The step operators below map [v |-> validator fields, h |-> heap].      *)
(***************************************************************************)
\* the identity of a newly created list: the first one not in use
NewId(h) ==
    CHOOSE i \in 1..(Cardinality(DOMAIN h) + 1) :
        i \notin DOMAIN h /\ \A j \in 1..(i - 1) : j \in DOMAIN h

\* the heap with a new empty list
Alloc(h) == h @@ (NewId(h) :> <<>>)

\* FieldValidator.__init__ (field_validator.py 5-9)
InitValidatorState ==
    [v |-> [warnings |-> 1, completeness_score |-> <<0, 1>>,
            accuracy_score |-> <<0, 1>>, empty_fields |-> 2],
     h |-> (1 :> <<>>) @@ (2 :> <<>>)]

\* a path list that has drifted from the schema: address.poBox is left out
fields_to_check_without_poBox ==
    << "lastName", "firstName", "idNumber", "gender",
       "dateOfBirth.day", "dateOfBirth.month", "dateOfBirth.year",
       "address.street", "address.houseNumber", "address.entrance",
       "address.apartment", "address.city", "address.postalCode",
       "landlinePhone", "mobilePhone", "jobType",
       "dateOfInjury.day", "dateOfInjury.month", "dateOfInjury.year",
       "timeOfInjury", "accidentLocation", "accidentAddress",
       "accidentDescription", "injuredBodyPart", "signature",
       "formFillingDate.day", "formFillingDate.month",
       "formFillingDate.year",
       "formReceiptDateAtClinic.day", "formReceiptDateAtClinic.month",
       "formReceiptDateAtClinic.year",
       "medicalInstitutionFields.healthFundMember",
       "medicalInstitutionFields.natureOfAccident",
       "medicalInstitutionFields.medicalDiagnoses" >>

\* the fixed list of _calculate_completeness (field_validator.py 45-62)
fields_to_check ==
    << "lastName", "firstName", "idNumber", "gender",
       "dateOfBirth.day", "dateOfBirth.month", "dateOfBirth.year",
       "address.street", "address.houseNumber", "address.entrance",
       "address.apartment", "address.city", "address.postalCode",
       "address.poBox",
       "landlinePhone", "mobilePhone", "jobType",
       "dateOfInjury.day", "dateOfInjury.month", "dateOfInjury.year",
       "timeOfInjury", "accidentLocation", "accidentAddress",
       "accidentDescription", "injuredBodyPart", "signature",
       "formFillingDate.day", "formFillingDate.month",
       "formFillingDate.year",
       "formReceiptDateAtClinic.day", "formReceiptDateAtClinic.month",
       "formReceiptDateAtClinic.year",
       "medicalInstitutionFields.healthFundMember",
       "medicalInstitutionFields.natureOfAccident",
       "medicalInstitutionFields.medicalDiagnoses" >>

\* the walk of _is_field_filled (field_validator.py 94-101); Missing when a
\* part is not found
Missing == [t |-> "missing", v |-> 0]

RECURSIVE Resolve(_, _)
Resolve(current, parts) ==
    IF parts = <<>> THEN current
    ELSE IF current.t = "obj" /\ HasKey(current, Head(parts))
         THEN Resolve(Lookup(current, Head(parts)), Tail(parts))
         ELSE Missing

\* a fill test without .strip(): whitespace counts as a value
_is_field_filled_without_strip(data, field_path) ==
    LET current == Resolve(data, SplitDot(field_path))
    IN  IF current = Missing THEN FALSE
        ELSE IF current # Null THEN PyStr(current) # "" ELSE FALSE

\* FieldValidator._is_field_filled
_is_field_filled(data, field_path) ==
    LET current == Resolve(data, SplitDot(field_path))
    IN  IF current = Missing THEN FALSE
        ELSE IF current # Null THEN PyStrip(PyStr(current)) # "" ELSE FALSE

\* self.warnings.clear(): the list already handed out is emptied in place
ClearWarnings(S) ==
    [v |-> S.v, h |-> [S.h EXCEPT ![S.v.warnings] = <<>>]]

\* self.warnings = [] (field_validator.py 24)
ResetWarnings(S) ==
    [v |-> [S.v EXCEPT !.warnings = NewId(S.h)], h |-> Alloc(S.h)]

\* self.empty_fields = [], keeping the old list (no new list is bound)
KeepEmptyFields(S) == S

\* self.empty_fields = [] (field_validator.py 25)
ResetEmptyFields(S) ==
    [v |-> [S.v EXCEPT !.empty_fields = NewId(S.h)], h |-> Alloc(S.h)]

\* the loop of _calculate_completeness: the paths appended to
\* self.empty_fields, in iteration order
RECURSIVE UnfilledPaths(_, _)
UnfilledPaths(data, paths) ==
    IF paths = <<>> THEN <<>>
    ELSE (IF _is_field_filled(data, Head(paths)) THEN <<>> ELSE <<Head(paths)>>)
             \o UnfilledPaths(data, Tail(paths))

\* FieldValidator._calculate_completeness and the assignment of its result
\* (field_validator.py 28, 39-72)
CalculateCompleteness(S, data) ==
    LET unfilled == UnfilledPaths(data, fields_to_check)
        total_fields == Len(fields_to_check)
        filled_fields == total_fields - Len(unfilled)
        score == IF total_fields > 0 THEN Rat(filled_fields * 100, total_fields)
                 ELSE <<0, 1>>
    IN  [v |-> [S.v EXCEPT !.completeness_score = score],
         h |-> [S.h EXCEPT ![S.v.empty_fields] = @ \o unfilled]]

\* bool(ocr_result): None and {} are false
Truthy(ocr_result) == ocr_result # Null /\ ocr_result # Obj(<<>>)

\* word.get('confidence'): a Num in hundredths (Num(90) is 0.90) or None
Confidence(word) == DictGet(word, "confidence", Null)

RECURSIVE SumConfidence(_)
SumConfidence(words) ==
    IF words = <<>> THEN 0
    ELSE (IF Confidence(Head(words)) # Null THEN Confidence(Head(words)).v ELSE 0)
             + SumConfidence(Tail(words))

\* FieldValidator._calculate_ocr_confidence
_calculate_ocr_confidence(ocr_result) ==
    LET words == DictGet(ocr_result, "words", List(<<>>)).v
        word_count == Cardinality({i \in 1..Len(words) : Confidence(words[i]) # Null})
    IN  IF ~Truthy(ocr_result) \/ words = <<>> THEN <<50, 1>>
        ELSE IF word_count = 0 THEN <<50, 1>>
        ELSE Rat(SumConfidence(words), word_count)

\* field_validator.py 31-32
CalculateAccuracy(S, ocr_result) ==
    [v |-> [S.v EXCEPT !.accuracy_score =
                IF Truthy(ocr_result) THEN _calculate_ocr_confidence(ocr_result)
                ELSE <<1, 2>>],
     h |-> S.h]

\* format checks that accept identifiers of 8 digits as well
FormatWarningsIdFrom8(data) ==
    LET idNumber == DictGet(data, "idNumber", Null)
        mobilePhone == DictGet(data, "mobilePhone", Null)
        idDigits == DigitsOf(idNumber.v)
        mobileDigits == DigitsOf(mobilePhone.v)
    IN  (IF idNumber \notin {Null, Str("")} /\ Len(idDigits) \notin {8, 9, 10}
         THEN <<"Invalid ID number length: " \o ToString(Len(idDigits)) \o " digits">>
         ELSE <<>>)
        \o
        (IF mobilePhone \notin {Null, Str("")}
            /\ (~StartsWith(mobileDigits, "05") \/ Len(mobileDigits) # 10)
         THEN <<"Invalid mobile phone format">>
         ELSE <<>>)

\* format checks that test the length of a mobile number but not its prefix
FormatWarningsMobileLengthOnly(data) ==
    LET idNumber == DictGet(data, "idNumber", Null)
        mobilePhone == DictGet(data, "mobilePhone", Null)
        idDigits == DigitsOf(idNumber.v)
        mobileDigits == DigitsOf(mobilePhone.v)
    IN  (IF idNumber \notin {Null, Str("")} /\ Len(idDigits) \notin {9, 10}
         THEN <<"Invalid ID number length: " \o ToString(Len(idDigits)) \o " digits">>
         ELSE <<>>)
        \o
        (IF mobilePhone \notin {Null, Str("")} /\ Len(mobileDigits) # 10
         THEN <<"Invalid mobile phone format">>
         ELSE <<>>)

\* FieldValidator._validate_formats: the warnings it appends
FormatWarnings(data) ==
    LET idNumber == DictGet(data, "idNumber", Null)
        mobilePhone == DictGet(data, "mobilePhone", Null)
        idDigits == DigitsOf(idNumber.v)
        mobileDigits == DigitsOf(mobilePhone.v)
    IN  (IF idNumber \notin {Null, Str("")} /\ Len(idDigits) \notin {9, 10}
         THEN <<"Invalid ID number length: " \o ToString(Len(idDigits)) \o " digits">>
         ELSE <<>>)
        \o
        (IF mobilePhone \notin {Null, Str("")}
            /\ (~StartsWith(mobileDigits, "05") \/ Len(mobileDigits) # 10)
         THEN <<"Invalid mobile phone format">>
         ELSE <<>>)

\* field_validator.py 35
ValidateFormats(S, data) ==
    [v |-> S.v, h |-> [S.h EXCEPT ![S.v.warnings] = @ \o FormatWarnings(data)]]

\* a validator object started afresh and given one validate_fields call
FreshValidate(data, ocr_result) ==
    ValidateFormats(
        CalculateAccuracy(
            CalculateCompleteness(
                ResetEmptyFields(ResetWarnings(InitValidatorState)), data),
            ocr_result),
        data)

\* the four report fields of a validator, lists by content
Report(S) ==
    [warnings |-> S.h[S.v.warnings],
     empty_fields |-> S.h[S.v.empty_fields],
     completeness_score |-> S.v.completeness_score,
     accuracy_score |-> S.v.accuracy_score]

(***************************************************************************)
(* FormProcessor._extract_with_gpt: the response text and its parsing.     *)
(* A response text is a List of tokens: Fence (```), Tag(word) (a run of   *)
(* letters such as `json`), Ws (whitespace), Junk (text that is not JSON), *)
(* or the text of one JSON value, written as the value it decodes to.      *)
(***************************************************************************)
Fence == [t |-> "fence", v |-> 0]
Tag(w) == [t |-> "tag", v |-> w]
Ws == [t |-> "ws", v |-> 0]
Junk == [t |-> "junk", v |-> 0]

IsJsonValue(tok) == tok.t \in {"null", "bool", "num", "str", "list", "obj"}

RECURSIVE LStripTokens(_)
LStripTokens(toks) ==
    IF toks # <<>> /\ Head(toks) = Ws THEN LStripTokens(Tail(toks)) ELSE toks

RECURSIVE RStripTokens(_)
RStripTokens(toks) ==
    IF toks # <<>> /\ toks[Len(toks)] = Ws
    THEN RStripTokens(SubSeq(toks, 1, Len(toks) - 1)) ELSE toks

\* content.strip()
StripTokens(toks) == RStripTokens(LStripTokens(toks))

\* response_text.split("```")[1] for a text that starts with a fence
SecondPart(toks) ==
    LET rest == Tail(toks)
        fences == {i \in 1..Len(rest) : rest[i] = Fence}
    IN  IF fences = {} THEN rest
        ELSE SubSeq(rest, 1, (CHOOSE i \in fences : \A j \in fences : i <= j) - 1)

\* main.py 179-182
StripCodeFence(toks) ==
    IF toks # <<>> /\ Head(toks) = Fence
    THEN LET part == SecondPart(toks)
         IN  IF part # <<>> /\ Head(part) = Tag("json") THEN Tail(part) ELSE part
    ELSE toks

\* json.loads: one JSON value with optional surrounding whitespace
JsonLoads(toks) ==
    LET body == StripTokens(toks)
    IN  IF Len(body) = 1 /\ IsJsonValue(body[1]) THEN body[1]
        ELSE Exc("JSONDecodeError")

\* an except clause of _extract_with_gpt that lets the failure out
ExtractFailureRaise(e) == e

\* both except clauses of _extract_with_gpt (main.py 189-196)
ExtractFailure(e) == _get_empty_result

\* main.py 162-196 after the call: `response` is the exception the call
\* raised, or the message content (None or a text)
ParseResponse(response) ==
    IF IsExc(response) THEN ExtractFailure(response)
    ELSE IF response = Null THEN ExtractFailure(Exc("AttributeError"))
    ELSE LET loaded == JsonLoads(StripCodeFence(StripTokens(response.v)))
         IN  IF IsExc(loaded) THEN ExtractFailure(loaded)
             ELSE LET compliant == _ensure_schema_compliance(loaded)
                  IN  IF IsExc(compliant) THEN ExtractFailure(compliant)
                      ELSE compliant

\* what _extract_with_gpt does after the call, as stage and log events:
\* the merger is entered once json.loads has succeeded, logger.error is
\* called in the two except clauses (main.py 190, 195)
ParseEvents(response) ==
    IF IsExc(response) THEN <<"gpt_call_failed", "GPT extraction failed">>
    ELSE IF response = Null THEN <<"GPT extraction failed">>
    ELSE LET loaded == JsonLoads(StripCodeFence(StripTokens(response.v)))
         IN  IF IsExc(loaded) THEN <<"Failed to parse GPT response as JSON">>
             ELSE IF IsExc(_ensure_schema_compliance(loaded))
                  THEN <<"merge", "GPT extraction failed">>
                  ELSE <<"merge">>

(***************************************************************************)
(* OCRProcessor._normalize_polygon                                         *)
(* An object of the analysis engine is an Inst: its attributes as pairs.   *)
(***************************************************************************)
Inst(attrs) == [t |-> "inst", v |-> attrs]

\* hasattr(o, name), for the attribute names of the engine's objects
HasAttr(o, name) == o.t = "inst" /\ HasKey(o, name)

\* getattr(o, name, default)
GetAttr(o, name, default) == IF HasAttr(o, name) THEN Lookup(o, name) ELSE default

\* bool(x)
PyTruthy(x) ==
    CASE x.t = "null" -> FALSE
      [] x.t = "bool" -> x.v
      [] x.t = "num" -> x.v # 0
      [] x.t = "str" -> x.v # ""
      [] x.t \in {"list", "obj"} -> x.v # <<>>
      [] OTHER -> TRUE

\* the value of a string of decimal digits
RECURSIVE ParseNat(_)
ParseNat(s) ==
    IF s = "" THEN 0
    ELSE 10 * ParseNat(SubSeq(s, 1, Len(s) - 1))
         + (CHOOSE n \in 0..9 : ToString(n) = SubSeq(s, Len(s), Len(s)))

\* whether float(x) returns: numbers, booleans and numeric texts (texts of
\* digits, with surrounding whitespace)
Convertible(x) ==
    \/ x.t \in {"num", "bool"}
    \/ /\ x.t = "str"
       /\ PyStrip(x.v) # ""
       /\ \A i \in 1..Len(PyStrip(x.v)) : IsDigit(CharAt(PyStrip(x.v), i))

\* float(x) for a convertible x
Float(x) ==
    CASE x.t = "num" -> x.v
      [] x.t = "bool" -> IF x.v THEN 1 ELSE 0
      [] OTHER -> ParseNat(PyStrip(x.v))

Point(x, y) == Obj(<< <<"x", Num(x)>>, <<"y", Num(y)>> >>)

\* one points.append({'x': float(a), 'y': float(b)}): the point, or the
\* exception float() raises
AppendPoint(a, b) ==
    IF Convertible(a) /\ Convertible(b) THEN <<Point(Float(a), Float(b))>>
    ELSE <<Exc("float")>>

\* ocr_processor.py 219-224: the flat array [x1, y1, x2, y2, ...]
FlatPoints(polygon) ==
    Flatten([k \in 1..((Len(polygon) + 1) \div 2) |->
               IF 2 * k <= Len(polygon)
               THEN AppendPoint(polygon[2 * k - 1], polygon[2 * k])
               ELSE <<>>])

\* ocr_processor.py 228-234: one entry of a list of points
EntryPoints(p) ==
    IF HasAttr(p, "x") /\ HasAttr(p, "y")
    THEN AppendPoint(Lookup(p, "x"), Lookup(p, "y"))
    ELSE IF p.t = "obj" /\ HasKey(p, "x") /\ HasKey(p, "y")
    THEN AppendPoint(Lookup(p, "x"), Lookup(p, "y"))
    ELSE IF p.t = "list" /\ Len(p.v) >= 2
    THEN AppendPoint(p.v[1], p.v[2])
    ELSE <<>>

\* the except clause of _normalize_polygon (ocr_processor.py 237-239): any
\* exception gives up the points collected so far
DropAllOnFailure(points) ==
    IF \E i \in 1..Len(points) : IsExc(points[i]) THEN <<>> ELSE points

\* OCRProcessor._normalize_polygon: the list of points it returns
_normalize_polygon(polygon) ==
    IF ~PyTruthy(polygon) THEN <<>>
    ELSE IF polygon.t = "list" /\ Len(polygon.v) > 0
    THEN IF polygon.v[1].t \in {"num", "bool"}
         THEN DropAllOnFailure(FlatPoints(polygon.v))
         ELSE DropAllOnFailure(
                  Flatten([i \in 1..Len(polygon.v) |-> EntryPoints(polygon.v[i])]))
    ELSE <<>>

\* OCRProcessor._safe_polygon
_safe_polygon(obj) ==
    IF HasAttr(obj, "polygon") THEN _normalize_polygon(Lookup(obj, "polygon"))
    ELSE <<>>

\* entries of the polygons the engine hands over: coordinates, point
\* objects, point dicts and coordinate pairs, well-formed and not
PolygonEntries ==
    { Num(1), Num(2), Str("7"), Str("abc"), Null,
      Inst(<< <<"x", Num(3)>>, <<"y", Num(4)>> >>),
      Inst(<< <<"x", Num(3)>> >>),
      Inst(<< <<"x", Str("abc")>>, <<"y", Num(4)>> >>),
      Obj(<< <<"x", Num(5)>>, <<"y", Num(6)>> >>),
      List(<< Num(7), Num(8) >>),
      List(<< Num(9) >>),
      List(<< Null, Num(1) >>) }

Polygons ==
    { Null, Str("polygon"), Num(0) }
    \cup { List(entries) : entries \in UNION {[1..n -> PolygonEntries] : n \in 0..MaxPoints} }

(***************************************************************************)
(* OCRProcessor._process_result and the end of process_document            *)
(***************************************************************************)
\* what a for loop over x visits: the entries of a list, the characters
\* of a str, the keys of a dict; other values cannot be iterated
Iterable(x) == x.t \in {"list", "str", "obj"}

Elements(x) ==
    CASE x.t = "list" -> x.v
      [] x.t = "str" -> [i \in 1..Len(x.v) |-> Str(CharAt(x.v, i))]
      [] OTHER -> [i \in 1..Len(x.v) |-> Str(x.v[i][1])]

\* `if hasattr(o, name) and o.name: for e in o.name`: the entries visited,
\* or the TypeError of iterating a value that is no collection
GuardedItems(o, name) ==
    IF HasAttr(o, name) /\ PyTruthy(Lookup(o, name))
    THEN IF Iterable(Lookup(o, name)) THEN List(Elements(Lookup(o, name)))
         ELSE Exc("TypeError")
    ELSE List(<<>>)

\* `if hasattr(o, name): for e in o.name`
AttrItems(o, name) ==
    IF HasAttr(o, name)
    THEN IF Iterable(Lookup(o, name)) THEN List(Elements(Lookup(o, name)))
         ELSE Exc("TypeError")
    ELSE List(<<>>)

\* the first exception among the entries of a sequence, None when none
FirstExc(seq) ==
    IF \E i \in 1..Len(seq) : IsExc(seq[i])
    THEN seq[CHOOSE i \in 1..Len(seq) :
                 IsExc(seq[i]) /\ \A j \in 1..(i - 1) : ~IsExc(seq[j])]
    ELSE Null

\* ocr_processor.py 122-126
word_info(word) ==
    Obj(<< <<"content", GetAttr(word, "content", Str(""))>>,
           <<"polygon", List(_safe_polygon(word))>>,
           <<"confidence", GetAttr(word, "confidence", Num(0))>> >>)

\* ocr_processor.py 133-137
line_info(line, page_number) ==
    Obj(<< <<"content", GetAttr(line, "content", Str(""))>>,
           <<"polygon", List(_safe_polygon(line))>>,
           <<"page_number", page_number>> >>)

\* ocr_processor.py 146-151
mark_info(mark, page_number) ==
    Obj(<< <<"state", GetAttr(mark, "state", Str("unselected"))>>,
           <<"polygon", List(_safe_polygon(mark))>>,
           <<"confidence", GetAttr(mark, "confidence", Num(0))>>,
           <<"page_number", page_number>> >>)

\* ocr_processor.py 109-155: the page_info of one page, or the exception
\* raised while building it
page_info(page) ==
    LET page_number == GetAttr(page, "page_number", Num(1))
        words == GuardedItems(page, "words")
        lines == GuardedItems(page, "lines")
        marks == GuardedItems(page, "selection_marks")
    IN  IF FirstExc(<<words, lines, marks>>) # Null
        THEN FirstExc(<<words, lines, marks>>)
        ELSE Obj(<< <<"page_number", page_number>>,
                    <<"width", GetAttr(page, "width", Num(0))>>,
                    <<"height", GetAttr(page, "height", Num(0))>>,
                    <<"unit", GetAttr(page, "unit", Str("pixel"))>>,
                    <<"words", List([i \in 1..Len(words.v) |-> word_info(words.v[i])])>>,
                    <<"lines", List([i \in 1..Len(lines.v) |->
                                       line_info(lines.v[i], page_number)])>>,
                    <<"selection_marks", List([i \in 1..Len(marks.v) |->
                                       mark_info(marks.v[i], page_number)])>> >>)

\* ocr_processor.py 160-169
para_info(para) ==
    LET regions == AttrItems(para, "bounding_regions")
    IN  IF IsExc(regions) THEN regions
        ELSE Obj(<< <<"content", GetAttr(para, "content", Str(""))>>,
                    <<"bounding_regions",
                      List([i \in 1..Len(regions.v) |->
                              Obj(<< <<"page_number",
                                       GetAttr(regions.v[i], "page_number", Num(1))>>,
                                     <<"polygon",
                                       List(_safe_polygon(regions.v[i]))>> >>)])>> >>)

\* ocr_processor.py 252-258
cell_info(cell) ==
    Obj(<< <<"row_index", GetAttr(cell, "row_index", Num(0))>>,
           <<"column_index", GetAttr(cell, "column_index", Num(0))>>,
           <<"content", GetAttr(cell, "content", Str(""))>>,
           <<"row_span", GetAttr(cell, "row_span", Num(1))>>,
           <<"column_span", GetAttr(cell, "column_span", Num(1))>> >>)

\* OCRProcessor._process_table: None when anything in it raised
_process_table(table) ==
    LET cells == AttrItems(table, "cells")
    IN  IF IsExc(cells) THEN Null
        ELSE Obj(<< <<"row_count", GetAttr(table, "row_count", Num(0))>>,
                    <<"column_count", GetAttr(table, "column_count", Num(0))>>,
                    <<"cells", List([i \in 1..Len(cells.v) |-> cell_info(cells.v[i])])>> >>)

\* ocr_processor.py 275-279: the content of the key or value element
ElementContent(kv_pair, name) ==
    IF HasAttr(kv_pair, name) /\ PyTruthy(Lookup(kv_pair, name))
    THEN GetAttr(Lookup(kv_pair, name), "content", Str(""))
    ELSE Str("")

\* OCRProcessor._process_key_value: None for a pair without key and value
\* and for a pair whose confidence float() rejects
_process_key_value(kv_pair) ==
    LET key == ElementContent(kv_pair, "key")
        value == ElementContent(kv_pair, "value")
    IN  IF HasAttr(kv_pair, "confidence") /\ ~Convertible(Lookup(kv_pair, "confidence"))
        THEN Null
        ELSE IF PyTruthy(key) \/ PyTruthy(value)
        THEN Obj(<< <<"key", key>>, <<"value", value>>,
                    <<"confidence",
                      IF HasAttr(kv_pair, "confidence")
                      THEN Num(Float(Lookup(kv_pair, "confidence"))) ELSE Num(0)>> >>)
        ELSE Null

\* the entries of a list of dicts under one key, concatenated
Gather(infos, key) ==
    Flatten([i \in 1..Len(infos) |-> Lookup(infos[i], key).v])

\* OCRProcessor._process_result: the dict it returns or the exception it
\* raises
_process_result(result) ==
    LET pages == GuardedItems(result, "pages")
        page_infos == IF IsExc(pages) THEN <<pages>>
                      ELSE [i \in 1..Len(pages.v) |-> page_info(pages.v[i])]
        paragraphs == GuardedItems(result, "paragraphs")
        para_infos == IF IsExc(paragraphs) THEN <<paragraphs>>
                      ELSE [i \in 1..Len(paragraphs.v) |-> para_info(paragraphs.v[i])]
        tables == GuardedItems(result, "tables")
        table_infos == IF IsExc(tables) THEN <<tables>>
                       ELSE SelectSeq([i \in 1..Len(tables.v) |->
                                         _process_table(tables.v[i])],
                                      LAMBDA info : info # Null)
        kv_pairs == GuardedItems(result, "key_value_pairs")
        kv_infos == IF IsExc(kv_pairs) THEN <<kv_pairs>>
                    ELSE SelectSeq([i \in 1..Len(kv_pairs.v) |->
                                      _process_key_value(kv_pairs.v[i])],
                                   LAMBDA info : info # Null)
        raised == FirstExc(page_infos \o para_infos \o table_infos \o kv_infos)
        lines == Gather(page_infos, "lines")
        content ==
            [i \in 1..Len(lines) |-> Lookup(lines[i], "content")]
            \o Flatten([i \in 1..Len(para_infos) |->
                           IF PyTruthy(Lookup(para_infos[i], "content"))
                           THEN <<Lookup(para_infos[i], "content")>> ELSE <<>>])
            \o (IF HasAttr(result, "content") /\ PyTruthy(Lookup(result, "content"))
                THEN <<Lookup(result, "content")>> ELSE <<>>)
    IN  IF raised # Null THEN raised
        ELSE Obj(<< <<"pages", List(page_infos)>>,
                    <<"paragraphs", List(para_infos)>>,
                    <<"tables", List(table_infos)>>,
                    <<"selection_marks", List(Gather(page_infos, "selection_marks"))>>,
                    <<"key_value_pairs", List(kv_infos)>>,
                    <<"lines", List(lines)>>,
                    <<"words", List(Gather(page_infos, "words"))>>,
                    <<"content", List(content)>> >>)

\* the end of process_document (ocr_processor.py 83-91): no result is a
\* plain Exception, a result is handed to _process_result, and whatever is
\* raised is logged and raised again
ReturnProcessed(result) ==
    IF ~PyTruthy(result)
    THEN Exc("Failed to process document with any configuration")
    ELSE _process_result(result)

(***************************************************************************)
(* Results the engine can hand to process_document: values that are no     *)
(* analysis result at all, and analysis results whose optional fields are  *)
(* present, missing, None or empty                                         *)
(***************************************************************************)
RawWord == Inst(<< <<"content", Str("dan")>>,
                   <<"polygon", List(<<Num(1), Num(2), Num(3), Num(4)>>)>>,
                   <<"confidence", Num(90)>> >>)

RawLine == Inst(<< <<"content", Str("dan cohen")>>,
                   <<"polygon", List(<<Num(1), Num(2), Num(3), Num(4)>>)>> >>)

RawMark == Inst(<< <<"state", Str("selected")>>, <<"confidence", Num(80)>> >>)

RawPages ==
    { Inst(<<>>),
      Inst(<< <<"page_number", Num(2)>>, <<"width", Num(8)>>, <<"height", Num(11)>>,
              <<"unit", Str("inch")>>,
              <<"words", List(<<RawWord, Inst(<<>>)>>)>>,
              <<"lines", List(<<RawLine, Inst(<<>>)>>)>>,
              <<"selection_marks", List(<<RawMark, Inst(<<>>)>>)>> >>),
      Inst(<< <<"words", Null>>, <<"lines", List(<<RawLine>>)>>,
              <<"selection_marks", List(<<>>)>> >>) }

\* a field of the result: missing, or present with one of the values
Field(name, values) == {<<>>} \cup {<< <<name, value>> >> : value \in values}

PagesField ==
    Field("pages", {Null, List(<<>>)} \cup {List(<<page>>) : page \in RawPages})

RawRegion == Inst(<< <<"page_number", Num(2)>>,
                     <<"polygon", List(<<Num(1), Num(2), Num(3), Num(4)>>)>> >>)

ParagraphsField ==
    Field("paragraphs",
          { Null,
            List(<<Inst(<< <<"content", Str("para")>>,
                           <<"bounding_regions", List(<<RawRegion>>)>> >>),
                   Inst(<<>>)>>),
            List(<<Inst(<< <<"content", Str("para")>>,
                           <<"bounding_regions", Null>> >>)>>) })

RawCell == Inst(<< <<"row_index", Num(1)>>, <<"content", Str("cell")>> >>)

TablesField ==
    Field("tables",
          { List(<<Inst(<< <<"row_count", Num(2)>>, <<"column_count", Num(3)>>,
                           <<"cells", List(<<RawCell>>)>> >>),
                   Inst(<<>>)>>),
            List(<<Inst(<< <<"cells", Null>> >>)>>) })

RawElement(content) == Inst(<< <<"content", Str(content)>> >>)

KeyValuePairsField ==
    Field("key_value_pairs",
          { List(<<Inst(<< <<"key", RawElement("name")>>,
                           <<"value", RawElement("dan")>>,
                           <<"confidence", Num(70)>> >>),
                   Inst(<< <<"key", RawElement("city")>>, <<"value", Null>> >>),
                   Inst(<<>>)>>),
            List(<<Inst(<< <<"key", RawElement("name")>>,
                           <<"value", RawElement("dan")>>,
                           <<"confidence", Null>> >>)>>) })

ContentField == Field("content", {Null, Str(""), Str("all the text")})

AnalysisResults ==
    { Inst(pages \o paragraphs \o tables \o kv_pairs \o content) :
        pages \in PagesField, paragraphs \in ParagraphsField,
        tables \in TablesField, kv_pairs \in KeyValuePairsField,
        content \in ContentField }

\* values that are no analysis result
UnusableRoots ==
    { Null, Bool(FALSE), Num(0), Num(5), Str(""), Str("abc"), List(<<>>),
      List(<<Num(1)>>), Obj(<<>>), Obj(<< <<"pages", List(<<>>)>> >>) }

RawResults == UnusableRoots \cup AnalysisResults

(***************************************************************************)
(* Inputs of the merger: values json.loads can return                      *)
(***************************************************************************)
ExtractedKeys == {"lastName", "mobilePhone", "dateOfBirth", "extraKey"}

ExtractedVals ==
    { Null, Str("null"), Str(""), Str("abc"), Str("Monday"), Num(7), Bool(TRUE),
      List(<<Str("a")>>), List(<<Str("day")>>), Obj(<<>>),
      Obj(<< <<"day", Str("1")>> >>),
      Obj(<< <<"bogus", Str("x")>>, <<"day", Num(3)>>, <<"year", Null>> >>) }

ExtractedPairs == {<<k, x>> : k \in ExtractedKeys, x \in ExtractedVals}

ExtractedObjects ==
    { Obj(kv) : kv \in { s \in UNION {[1..n -> ExtractedPairs] : n \in 0..MaxKeys} :
                           \A i, j \in 1..Len(s) : i # j => s[i][1] # s[j][1] } }

ExtractedRoots ==
    { Null, Num(0), Bool(FALSE), Str("x"), Str("my lastName"),
      List(<<>>), List(<<Str("lastName")>>), List(<<Num(1)>>) }

Extracteds == ExtractedObjects \cup ExtractedRoots

(***************************************************************************)
(* Inputs of the pipeline: what the OCR engine and the extraction model    *)
(* can answer                                                              *)
(***************************************************************************)
Paths == {"a.pdf", "b.jpg"}

PathSeqs == UNION {[1..n -> Paths] : n \in 0..MaxDocs}

\* word_info / line_info / page_info of OCRProcessor._process_result
Word(content, confidence) ==
    Obj(<< <<"content", Str(content)>>, <<"polygon", List(<<>>)>>,
           <<"confidence", confidence>> >>)

Line(content, polygon, page_number) ==
    Obj(<< <<"content", content>>, <<"polygon", List(polygon)>>,
           <<"page_number", Num(page_number)>> >>)

Page(page_number, words, lines, selection_marks) ==
    Obj(<< <<"page_number", Num(page_number)>>, <<"width", Num(0)>>,
           <<"height", Num(0)>>, <<"unit", Str("pixel")>>,
           <<"words", List(words)>>, <<"lines", List(lines)>>,
           <<"selection_marks", List(selection_marks)>> >>)

\* the dict built by OCRProcessor._process_result for a one-page document
Processed(words, lines) ==
    Obj(<< <<"pages", List(<<Page(1, words, lines, <<>>)>>)>>,
           <<"paragraphs", List(<<>>)>>,
           <<"tables", List(<<>>)>>,
           <<"selection_marks", List(<<>>)>>,
           <<"key_value_pairs", List(<<>>)>>,
           <<"lines", List(lines)>>,
           <<"words", List(words)>>,
           <<"content", List([i \in 1..Len(lines) |-> Lookup(lines[i], "content")])>> >>)

WordPool == << Word("abc", Num(90)), Word("de", Null), Word("f", Num(75)) >>

\* results of process_document: no words; words with and without a
\* confidence; a line whose content the engine left as None
OcrResults ==
    { Processed(<<>>, << Line(Str("abc"), <<>>, 1) >>),
      Processed(SubSeq(WordPool, 1, MaxWords),
                << Line(Str("8 5 12345678"), <<>>, 1), Line(Str(" x  y "), <<>>, 1) >>),
      Processed(<< Word("de", Null) >>, << Line(Null, <<>>, 1) >>) }

\* what process_document(path) can do: open() fails, every configuration
\* fails in the engine, or a result is returned
OcrOutcomes(path) ==
    { Exc("[Errno 2] No such file or directory: '" \o path \o "'"),
      Exc("AzureError") } \cup OcrResults

\* the parsed JSON bodies the extraction model answers with
ResponseValues ==
    { Obj(<< <<"idNumber", Str("12345678")>>, <<"mobilePhone", Str("055-1234567")>>,
             <<"dateOfBirth", Obj(<< <<"day", Num(3)>> >>)>> >>),
      Obj(<< <<"lastName", Str("abc")>>, <<"mobilePhone", Str("8512345678")>>,
             <<"extraKey", Bool(TRUE)>> >>),
      Obj(<< <<"dateOfBirth", Null>> >>) }

\* chat.completions.create: raises, or returns a message whose content is
\* None or a text
Responses ==
    { Exc("APIError"), Null, List(<<>>), List(<<Junk>>), List(<<Fence>>) }
    \cup { List(toks) : toks \in UNION {
              { <<x>>,
                <<Ws, x, Ws>>,
                <<Fence, Tag("json"), Ws, x, Ws, Fence>>,
                <<Fence, Ws, x, Fence, Junk>>,
                <<Fence, Tag("JSON"), x, Fence>>,
                <<Junk, Fence, Tag("json"), x, Fence>>,
                <<x, Junk>> } : x \in ResponseValues } }

\* arguments of a direct validate_fields call
ValidateDatas ==
    { _get_empty_result } \cup
    { _ensure_schema_compliance(x) : x \in {y \in ResponseValues : y.t = "obj"
                                               /\ ~IsExc(_ensure_schema_compliance(y))} }

ValidateOcrs ==
    { Null, Obj(<<>>) }
    \cup { Processed(SubSeq(WordPool, 1, n), <<>>) : n \in 0..MaxWords }

(***************************************************************************)
(* Inputs of a validate_fields call made on its own: records built from    *)
(* the template and OCR results with and without word confidences          *)
(***************************************************************************)
\* d[key] = value on a dict
SetKey(d, key, value) ==
    IF HasKey(d, key)
    THEN Obj([i \in 1..Len(d.v) |->
                IF d.v[i][1] = key THEN <<key, value>> ELSE d.v[i]])
    ELSE Obj(Append(d.v, <<key, value>>))

\* the record with the value at a path of keys replaced
RECURSIVE SetPath(_, _, _)
SetPath(d, parts, value) ==
    IF Len(parts) = 1 THEN SetKey(d, Head(parts), value)
    ELSE SetKey(d, Head(parts), SetPath(Lookup(d, Head(parts)), Tail(parts), value))

\* the template with every leaf replaced by one value
RECURSIVE FillLeaves(_, _)
FillLeaves(d, value) ==
    Obj([i \in 1..Len(d.v) |->
           <<d.v[i][1], IF d.v[i][2].t = "obj" THEN FillLeaves(d.v[i][2], value)
                        ELSE value>>])

AllFilled == FillLeaves(_get_empty_result, Str("x"))

\* leaf values a caller can put in a record
LeafValues ==
    { Str(""), Str(" "), Str("\t\n  "), Str("a"), Str(" a "), Null, Num(0),
      Bool(FALSE), List(<<>>) }

ProbedPaths ==
    { <<"lastName">>, <<"dateOfBirth", "day">>,
      <<"medicalInstitutionFields", "medicalDiagnoses">> }

\* records that differ from the empty or the fully filled record in one
\* leaf, records without some keys, records whose sub-object is no dict
FillRecords ==
    { _get_empty_result, AllFilled, FillLeaves(_get_empty_result, Str("  ")),
      Obj(<<>>), Obj(<< <<"lastName", Str("a")>> >>),
      SetKey(AllFilled, "dateOfBirth", Null),
      SetKey(AllFilled, "address", Str("x")),
      SetKey(AllFilled, "dateOfInjury", Obj(<< <<"day", Str("1")>> >>)) }
    \cup { SetPath(base, path, value) :
             base \in {_get_empty_result, AllFilled}, path \in ProbedPaths,
             value \in LeafValues }

IdNumbers ==
    { "", "12345678", "123456789", "1234567890", "12345678901",
      "1234-5678", "12-345-678-9", "id 1234567890", "abc" }

MobilePhones ==
    { "", "0551234567", "85123456789", "055-123 4567", "0651234567",
      "055123456", "05512345678", "x0551234567", "abc" }

\* records with an identifier and a mobile phone of every kind
FormatRecords ==
    { SetKey(SetKey(_get_empty_result, "idNumber", Str(id)), "mobilePhone", Str(m)) :
         id \in IdNumbers, m \in MobilePhones }

ValidatorRecords == FillRecords \cup FormatRecords

\* None, {}, a result without words, words without a confidence, words
\* with a confidence of 0.0
ValidatorOcrs ==
    ValidateOcrs
    \cup { Obj(<< <<"words", List(<<>>)>> >>),
           Obj(<< <<"pages", List(<<>>)>> >>),
           Processed(<< Word("de", Null) >>, <<>>),
           Processed(<< Word("z", Num(0)), Word("abc", Num(90)) >>, <<>>),
           Processed(<< Word("z", Num(0)) >>, <<>>) }

(***************************************************************************)
(* State                                                                   *)
(***************************************************************************)
Threads == {1, 2}

VARIABLES
    extracted,      \* the parsed JSON handed to _ensure_schema_compliance
    merged,         \* what _ensure_schema_compliance returned or raised
    validator,      \* the fields of FormProcessor.validator
    heap,           \* the list objects the validator created
    pc,             \* per thread: where it is in the code
    caller,         \* per thread: the call the client made
    calls,          \* per thread: calls the client has completed
    file_paths,     \* per thread: argument of process_batch
    idx,            \* per thread: position of process_batch's loop
    results,        \* per thread: `results` of process_batch
    file_path,      \* per thread: argument of process_form
    ocr_result,     \* per thread: `ocr_result` of process_form / validate_fields
    data,           \* per thread: `extracted_data`, `data` of validate_fields
    validated,      \* per thread: the tuple validate_fields returned
    ret,            \* per thread: what process_form returned or raised
    trace,          \* per thread: stages entered and errors logged, in order
    cleanText,      \* the `text` handed to _clean_ocr_artifacts
    cleaned,        \* what _clean_ocr_artifacts returned for it
    recleaned,      \* what _clean_ocr_artifacts returned for `cleaned`
    rawResult,      \* the `result` the analysis engine handed back
    processed,      \* what process_document made of it (returned or raised)
    polygonIn,      \* the `polygon` handed to _normalize_polygon
    polygonOut,     \* the points _normalize_polygon returned
    canonical,      \* the `ocr_result` handed to _prepare_ocr_text_for_gpt
    text_parts,     \* the `text_parts` it built
    config,         \* position of process_document's loop over the configurations
    attempts        \* the calls process_document made to the engine, with their outcomes

mergeVars == <<extracted, merged>>
valVars == <<validator, heap>>
batchVars == <<file_paths, idx, results>>
formVars == <<file_path, ocr_result, data, validated, ret, trace>>
unitVars == <<cleanText, cleaned, recleaned, rawResult, processed, polygonIn,
              polygonOut, canonical, text_parts, config, attempts>>
vars == <<mergeVars, valVars, pc, caller, calls, batchVars, formVars, unitVars>>

NotYet == [t |-> "none", v |-> 0]

\* the validator with its lists as the step operators take it
VS == [v |-> validator, h |-> heap]

SetVS(S) == validator' = S.v /\ heap' = S.h

InitPipeline ==
    /\ validator = InitValidatorState.v
    /\ heap = InitValidatorState.h
    /\ pc = [t \in Threads |-> "idle"]
    /\ caller = [t \in Threads |-> "none"]
    /\ calls = [t \in Threads |-> 0]
    /\ idx = [t \in Threads |-> 0]
    /\ results = [t \in Threads |-> <<>>]
    /\ file_path = [t \in Threads |-> ""]
    /\ ocr_result = [t \in Threads |-> Null]
    /\ data = [t \in Threads |-> NotYet]
    /\ validated = [t \in Threads |-> NotYet]
    /\ ret = [t \in Threads |-> NotYet]
    /\ trace = [t \in Threads |-> <<>>]

\* no helper has been applied on its own
InitUnits ==
    /\ cleanText = "" /\ cleaned = NotYet /\ recleaned = NotYet
    /\ rawResult = Null /\ processed = NotYet
    /\ polygonIn = Null /\ polygonOut = NotYet
    /\ canonical = Null /\ text_parts = NotYet
    /\ config = 0 /\ attempts = <<>>

(***************************************************************************)
(* Specification of the merger alone                                       *)
(***************************************************************************)
InitMerge ==
    /\ extracted \in Extracteds
    /\ merged = NotYet
    /\ file_paths = [t \in Threads |-> <<>>]
    /\ InitPipeline
    /\ InitUnits

EnsureSchemaCompliance ==
    /\ merged = NotYet
    /\ merged' = _ensure_schema_compliance(extracted)
    /\ UNCHANGED <<extracted, unitVars, valVars, pc, caller, calls, batchVars, formVars>>

NextMerge == EnsureSchemaCompliance

SpecMerge == InitMerge /\ [][NextMerge]_vars

(***************************************************************************)
(* FormProcessor._prepare_ocr_text_for_gpt                                 *)
(***************************************************************************)
Letters ==
    {"a", "b", "c", "d", "e", "f", "g", "h", "i", "j", "k", "l", "m", "n", "o",
     "p", "q", "r", "s", "t", "u", "v", "w", "x", "y", "z", "A", "B", "C", "D",
     "E", "F", "G", "H", "I", "J", "K", "L", "M", "N", "O", "P", "Q", "R", "S",
     "T", "U", "V", "W", "X", "Y", "Z"}

\* the regex class \w
IsWordChar(c) == IsDigit(c) \/ c \in Letters \/ c = "_"

\* the regex assertion \b between positions i-1 and i of s
Boundary(s, i) ==
    LET before == i > 1 /\ i - 1 <= Len(s) /\ IsWordChar(CharAt(s, i - 1))
        after == i >= 1 /\ i <= Len(s) /\ IsWordChar(CharAt(s, i))
    IN  before # after

\* length of the run of whitespace that starts at position i
RECURSIVE SpaceRun(_, _)
SpaceRun(s, i) ==
    IF i <= Len(s) /\ IsSpace(CharAt(s, i)) THEN 1 + SpaceRun(s, i + 1) ELSE 0

\* a spaced pattern that allows no whitespace after the 8
PhoneMatchWithoutGap(s, i, spaced) ==
    LET d == i + 2
    IN  IF /\ d + 7 <= Len(s)
           /\ Boundary(s, i)
           /\ CharAt(s, i) = "8"
           /\ CharAt(s, i + 1) = "5"
           /\ \A k \in d..(d + 7) : IsDigit(CharAt(s, k))
           /\ Boundary(s, d + 8)
        THEN d ELSE 0

\* r'\b85(\d{8})\b' (gap = 0) and r'\b8\s*5(\d{8})\b' (gap = the whitespace
\* after the 8) matched at position i: the position of the first of the 8
\* digits, or 0 when there is no match
PhoneMatch(s, i, spaced) ==
    LET gap == IF spaced THEN SpaceRun(s, i + 1) ELSE 0
        d == i + gap + 2
    IN  IF /\ d + 7 <= Len(s)
           /\ Boundary(s, i)
           /\ CharAt(s, i) = "8"
           /\ CharAt(s, i + gap + 1) = "5"
           /\ \A k \in d..(d + 7) : IsDigit(CharAt(s, k))
           /\ Boundary(s, d + 8)
        THEN d ELSE 0

\* re.sub(pattern, r'05\1', s) from position i on
RECURSIVE SubPhone(_, _, _)
SubPhone(s, i, spaced) ==
    IF i > Len(s) THEN ""
    ELSE LET d == PhoneMatch(s, i, spaced)
         IN  IF d > 0 THEN "05" \o SubSeq(s, d, d + 7) \o SubPhone(s, d + 8, spaced)
             ELSE CharAt(s, i) \o SubPhone(s, i + 1, spaced)

\* re.sub(r'\s\s', ' ', s): pairs of whitespace instead of runs
RECURSIVE CollapsePairs(_, _)
CollapsePairs(s, i) ==
    IF i > Len(s) THEN ""
    ELSE IF IsSpace(CharAt(s, i)) /\ i < Len(s) /\ IsSpace(CharAt(s, i + 1))
         THEN " " \o CollapsePairs(s, i + 2)
         ELSE CharAt(s, i) \o CollapsePairs(s, i + 1)

\* re.sub(r'\s+', ' ', s) from position i on
RECURSIVE CollapseSpaces(_, _)
CollapseSpaces(s, i) ==
    IF i > Len(s) THEN ""
    ELSE IF IsSpace(CharAt(s, i))
         THEN " " \o CollapseSpaces(s, i + SpaceRun(s, i))
         ELSE CharAt(s, i) \o CollapseSpaces(s, i + 1)

\* FormProcessor._clean_ocr_artifacts on a str
_clean_ocr_artifacts(text) ==
    IF text = "" THEN text
    ELSE PyStrip(CollapseSpaces(SubPhone(SubPhone(text, 1, FALSE), 1, TRUE), 1))

RECURSIVE SumY(_)
SumY(points) ==
    IF points = <<>> THEN 0
    ELSE (IF HasKey(Head(points), "y") THEN Lookup(Head(points), "y").v ELSE 0)
             + SumY(Tail(points))

\* FormProcessor._get_line_y_pos: the mean as <<sum, count>>, 0 as <<0, 1>>
_get_line_y_pos(line) ==
    LET polygon == DictGet(line, "polygon", List(<<>>)).v
        count == Cardinality({i \in 1..Len(polygon) : HasKey(polygon[i], "y")})
    IN  IF polygon # <<>> /\ count > 0 THEN <<SumY(polygon), count>> ELSE <<0, 1>>

\* a <= b for two such means
MeanLE(a, b) == a[1] * b[2] <= b[1] * a[2]

\* sorted(lines, key=_get_line_y_pos): stable, ascending
RECURSIVE SortedLines(_)
SortedLines(lines) ==
    IF lines = <<>> THEN <<>>
    ELSE LET front == SortedLines(SubSeq(lines, 1, Len(lines) - 1))
             last == lines[Len(lines)]
             k == Cardinality({i \in 1..Len(front) :
                      MeanLE(_get_line_y_pos(front[i]), _get_line_y_pos(last))})
             \* front is sorted, so the elements with a key <= last's are its first k
         IN  SubSeq(front, 1, k) \o <<last>> \o SubSeq(front, k + 1, Len(front))

\* main.py 205-220 for one page
PageParts(page) ==
    LET lines == SortedLines(DictGet(page, "lines", List(<<>>)).v)
        content(i) == PyStrip(DictGet(lines[i], "content", Str("")).v)
    IN  <<"\n=== PAGE " \o PyStr(DictGet(page, "page_number", Num(1))) \o " ===">>
        \o Flatten([i \in 1..Len(lines) |->
                      IF content(i) # "" THEN <<_clean_ocr_artifacts(content(i))>>
                      ELSE <<>>])

\* main.py 223-232
CheckboxParts(pages) ==
    LET marks == Flatten([p \in 1..Len(pages) |->
                            DictGet(pages[p], "selection_marks", List(<<>>)).v])
        checkbox_info == Flatten([i \in 1..Len(marks) |->
                            IF DictGet(marks[i], "state", Str("unselected")) = Str("selected")
                            THEN <<"CHECKED checkbox found">> ELSE <<>>])
    IN  IF checkbox_info # <<>> THEN <<"\n=== CHECKBOXES ===">> \o checkbox_info
        ELSE <<>>

\* main.py 235-241
KeyValueParts(ocr) ==
    LET kvs == DictGet(ocr, "key_value_pairs", List(<<>>)).v
    IN  IF kvs # <<>>
        THEN <<"\n=== KEY-VALUE PAIRS ===">>
             \o Flatten([i \in 1..Len(kvs) |->
                  LET key == DictGet(kvs[i], "key", Str("")).v
                      value == DictGet(kvs[i], "value", Str("")).v
                  IN  IF key # "" /\ value # ""
                      THEN <<_clean_ocr_artifacts(key) \o " → "
                               \o _clean_ocr_artifacts(value)>>
                      ELSE <<>>])
        ELSE <<>>

\* main.py 244-250
TableParts(ocr) ==
    LET tables == DictGet(ocr, "tables", List(<<>>)).v
        cells == Flatten([i \in 1..Len(tables) |->
                            DictGet(tables[i], "cells", List(<<>>)).v])
    IN  IF tables # <<>>
        THEN <<"\n=== TABLE CONTENT ===">>
             \o Flatten([i \in 1..Len(cells) |->
                  LET content == DictGet(cells[i], "content", Str("")).v
                  IN  IF content # "" THEN <<_clean_ocr_artifacts(content)>> ELSE <<>>])
        ELSE <<>>

\* main.py 253-259
ContentParts(ocr) ==
    LET all_content == DictGet(ocr, "content", List(<<>>)).v
    IN  IF all_content # <<>>
        THEN <<"\n=== ALL OCR CONTENT ===">>
             \o Flatten([i \in 1..Len(all_content) |->
                  IF all_content[i].t = "str" /\ PyStrip(all_content[i].v) # ""
                  THEN <<_clean_ocr_artifacts(PyStrip(all_content[i].v))>>
                  ELSE <<>>])
        ELSE <<>>

\* main.py 216: line.get('content', '').strip() raises for a content of None
LineContentUnusable(ocr) ==
    LET pages == DictGet(ocr, "pages", List(<<>>)).v
    IN  \E p \in 1..Len(pages) :
           LET lines == DictGet(pages[p], "lines", List(<<>>)).v
           IN  \E i \in 1..Len(lines) :
                  DictGet(lines[i], "content", Str("")).t # "str"

\* text_parts with the table section emitted before the key-value section
TextPartsTablesFirst(ocr) ==
    LET pages == DictGet(ocr, "pages", List(<<>>)).v
    IN  Flatten([p \in 1..Len(pages) |-> PageParts(pages[p])])
        \o CheckboxParts(pages) \o TableParts(ocr) \o KeyValueParts(ocr)
        \o ContentParts(ocr)

\* the entries of text_parts, in order
TextParts(ocr) ==
    LET pages == DictGet(ocr, "pages", List(<<>>)).v
    IN  Flatten([p \in 1..Len(pages) |-> PageParts(pages[p])])
        \o CheckboxParts(pages) \o KeyValueParts(ocr) \o TableParts(ocr)
        \o ContentParts(ocr)

_prepare_ocr_text_for_gpt(ocr) ==
    IF LineContentUnusable(ocr) THEN Exc("AttributeError")
    ELSE Str(JoinWith(TextParts(ocr), "\n"))

(***************************************************************************)
(* FormProcessor.process_form, one action per stage                        *)
(***************************************************************************)
\* whether a process_form call ended by raising instead of returning a record
Raised(r) == "t" \in DOMAIN r /\ r.t = "exc"

\* a process_document that swallows its failure and returns an empty result
OcrSwallow(out) == IF IsExc(out) THEN Processed(<<>>, <<>>) ELSE out

\* OCRProcessor.process_document hands its result on and re-raises any
\* failure (ocr_processor.py 87-91)
OcrReturn(out) == out

\* an except clause that lets the failure out of process_form
ReRaise(e) == e

\* the except clause of process_form (main.py 81-87)
HandleException(e) ==
    [status |-> "error", error |-> e.v, data |-> _get_empty_result]

\* the success record of process_form (main.py 63-76)
SuccessResult(t) ==
    [status |-> "success",
     data |-> validated[t].data,
     validation |-> [warnings |-> validated[t].warnings,
                     has_warnings |-> Len(heap[validated[t].warnings]) > 0,
                     completeness_score |-> validator.completeness_score,
                     accuracy_score |-> validator.accuracy_score,
                     empty_fields |-> validator.empty_fields],
     metadata |-> [file_path |-> file_path[t]]]

\* main.py 51
PF_Ocr(t) ==
    /\ pc[t] = "ocr"
    /\ \E out \in OcrOutcomes(file_path[t]) :
          LET r == OcrReturn(out)
              entered == trace[t] \o (IF IsExc(out) THEN <<"ocr", "ocr_failed">>
                                      ELSE <<"ocr">>)
          IN  /\ trace' = [trace EXCEPT ![t] = entered]
              /\ IF IsExc(r)
                 THEN /\ ret' = [ret EXCEPT ![t] = r]
                      /\ pc' = [pc EXCEPT ![t] = "pf_except"]
                      /\ UNCHANGED ocr_result
                 ELSE /\ ocr_result' = [ocr_result EXCEPT ![t] = r]
                      /\ pc' = [pc EXCEPT ![t] = "extract"]
                      /\ UNCHANGED ret
    /\ UNCHANGED <<mergeVars, unitVars, valVars, caller, calls, batchVars, file_path,
                   data, validated>>

\* main.py 55: self._extract_with_gpt(ocr_result) -- the projection
\* (main.py 94), the one call of the extraction model (main.py 163-171),
\* the parsing and merging of its answer (main.py 173-196)
PF_Extract(t) ==
    /\ pc[t] = "extract"
    /\ LET text == _prepare_ocr_text_for_gpt(ocr_result[t])
       IN  IF IsExc(text)
           THEN /\ trace' = [trace EXCEPT ![t] = Append(@, "project")]
                /\ ret' = [ret EXCEPT ![t] = text]
                /\ pc' = [pc EXCEPT ![t] = "pf_except"]
                /\ UNCHANGED data
           ELSE \E response \in Responses :
                   LET d == ParseResponse(response)
                   IN  /\ trace' = [trace EXCEPT ![t] =
                                      @ \o <<"project", "gpt_call">>
                                        \o ParseEvents(response)]
                       /\ IF IsExc(d)
                          THEN /\ ret' = [ret EXCEPT ![t] = d]
                               /\ pc' = [pc EXCEPT ![t] = "pf_except"]
                               /\ UNCHANGED data
                          ELSE /\ data' = [data EXCEPT ![t] = d]
                               /\ pc' = [pc EXCEPT ![t] = "v_warnings"]
                               /\ UNCHANGED ret
    /\ UNCHANGED <<mergeVars, unitVars, valVars, caller, calls, batchVars, file_path,
                   ocr_result, validated>>

(***************************************************************************)
(* FieldValidator.validate_fields, one action per statement                *)
(***************************************************************************)
ValidateFrame == <<mergeVars, unitVars, caller, calls, batchVars, file_path, ocr_result,
                   data, validated, ret>>

\* field_validator.py 24
V_Warnings(t) ==
    /\ pc[t] = "v_warnings"
    /\ SetVS(ResetWarnings(VS))
    /\ trace' = [trace EXCEPT ![t] = Append(@, "validate")]
    /\ pc' = [pc EXCEPT ![t] = "v_empty"]
    /\ UNCHANGED ValidateFrame

\* field_validator.py 25
V_EmptyFields(t) ==
    /\ pc[t] = "v_empty"
    /\ SetVS(ResetEmptyFields(VS))
    /\ pc' = [pc EXCEPT ![t] = "v_completeness"]
    /\ UNCHANGED <<ValidateFrame, trace>>

\* field_validator.py 28
V_Completeness(t) ==
    /\ pc[t] = "v_completeness"
    /\ SetVS(CalculateCompleteness(VS, data[t]))
    /\ pc' = [pc EXCEPT ![t] = "v_accuracy"]
    /\ UNCHANGED <<ValidateFrame, trace>>

\* field_validator.py 31-32
V_Accuracy(t) ==
    /\ pc[t] = "v_accuracy"
    /\ SetVS(CalculateAccuracy(VS, ocr_result[t]))
    /\ pc' = [pc EXCEPT ![t] = "v_formats"]
    /\ UNCHANGED <<ValidateFrame, trace>>

\* field_validator.py 35
V_Formats(t) ==
    /\ pc[t] = "v_formats"
    /\ SetVS(ValidateFormats(VS, data[t]))
    /\ pc' = [pc EXCEPT ![t] = "v_return"]
    /\ UNCHANGED <<ValidateFrame, trace>>

\* field_validator.py 37: return data, self.warnings
V_Return(t) ==
    /\ pc[t] = "v_return"
    /\ validated' = [validated EXCEPT ![t] =
                        [data |-> data[t], warnings |-> validator.warnings]]
    /\ pc' = [pc EXCEPT ![t] = IF caller[t] = "validate" THEN "validate_return"
                               ELSE "assemble"]
    /\ UNCHANGED <<mergeVars, unitVars, valVars, caller, calls, batchVars, file_path,
                   ocr_result, data, ret, trace>>

(***************************************************************************)
(* process_form: result assembly, the except clause, the return            *)
(***************************************************************************)
\* main.py 63-79
PF_Assemble(t) ==
    /\ pc[t] = "assemble"
    /\ ret' = [ret EXCEPT ![t] = SuccessResult(t)]
    /\ trace' = [trace EXCEPT ![t] = Append(@, "result")]
    /\ pc' = [pc EXCEPT ![t] = "pf_return"]
    /\ UNCHANGED <<mergeVars, unitVars, valVars, caller, calls, batchVars, file_path,
                   ocr_result, data, validated>>

\* main.py 81-87
PF_Except(t) ==
    /\ pc[t] = "pf_except"
    /\ ret' = [ret EXCEPT ![t] = HandleException(ret[t])]
    /\ pc' = [pc EXCEPT ![t] = "pf_return"]
    /\ UNCHANGED <<mergeVars, unitVars, valVars, caller, calls, batchVars, file_path,
                   ocr_result, data, validated, trace>>

(***************************************************************************)
(* FormProcessor.process_batch                                             *)
(***************************************************************************)
\* a loop that leaves failed documents out of its results
AppendSuccessOnly(rs, result) ==
    IF result.status = "error" THEN rs ELSE Append(rs, result)

\* results.append(result) (main.py 359)
AppendResult(rs, result) == Append(rs, result)

\* the frame of a process_form call as it is entered (main.py 46)
EnterProcessForm(t, path) ==
    /\ file_path' = [file_path EXCEPT ![t] = path]
    /\ ocr_result' = [ocr_result EXCEPT ![t] = Null]
    /\ data' = [data EXCEPT ![t] = NotYet]
    /\ validated' = [validated EXCEPT ![t] = NotYet]
    /\ ret' = [ret EXCEPT ![t] = NotYet]
    /\ trace' = [trace EXCEPT ![t] = <<>>]

\* the frame of a process_form call is gone once it has returned
LeaveProcessForm(t) ==
    /\ file_path' = [file_path EXCEPT ![t] = ""]
    /\ ocr_result' = [ocr_result EXCEPT ![t] = Null]
    /\ data' = [data EXCEPT ![t] = NotYet]
    /\ validated' = [validated EXCEPT ![t] = NotYet]
    /\ ret' = [ret EXCEPT ![t] = NotYet]
    /\ trace' = [trace EXCEPT ![t] = <<>>]

\* the client calls process_batch(paths)
CallProcessBatch(t) ==
    /\ pc[t] = "idle"
    /\ calls[t] < MaxCalls
    /\ \E paths \in PathSeqs : file_paths' = [file_paths EXCEPT ![t] = paths]
    /\ results' = [results EXCEPT ![t] = <<>>]
    /\ idx' = [idx EXCEPT ![t] = 1]
    /\ caller' = [caller EXCEPT ![t] = "batch"]
    /\ pc' = [pc EXCEPT ![t] = "batch_loop"]
    /\ UNCHANGED <<mergeVars, unitVars, valVars, calls, formVars>>

\* main.py 357-358 and 360: the next path, or the return of results
BatchLoop(t) ==
    /\ pc[t] = "batch_loop"
    /\ IF idx[t] <= Len(file_paths[t])
       THEN /\ EnterProcessForm(t, file_paths[t][idx[t]])
            /\ pc' = [pc EXCEPT ![t] = "ocr"]
       ELSE /\ pc' = [pc EXCEPT ![t] = "batch_return"]
            /\ UNCHANGED formVars
    /\ UNCHANGED <<mergeVars, unitVars, valVars, caller, calls, batchVars>>

\* process_form returns into the loop (main.py 358-359); an exception would
\* leave process_batch
BatchAppend(t) ==
    /\ pc[t] = "pf_return"
    /\ caller[t] = "batch"
    /\ IF Raised(ret[t])
       THEN /\ pc' = [pc EXCEPT ![t] = "batch_raised"]
            /\ UNCHANGED <<results, idx>>
       ELSE /\ results' = [results EXCEPT ![t] = AppendResult(@, ret[t])]
            /\ idx' = [idx EXCEPT ![t] = @ + 1]
            /\ pc' = [pc EXCEPT ![t] = "batch_loop"]
    /\ LeaveProcessForm(t)
    /\ UNCHANGED <<mergeVars, unitVars, valVars, caller, calls, file_paths>>

(***************************************************************************)
(* Direct calls of process_form and validate_fields                        *)
(***************************************************************************)
\* streamlit_app.py 63-64, main.py 384-385
CallProcessForm(t) ==
    /\ pc[t] = "idle"
    /\ calls[t] < MaxCalls
    /\ \E path \in Paths : EnterProcessForm(t, path)
    /\ caller' = [caller EXCEPT ![t] = "form"]
    /\ pc' = [pc EXCEPT ![t] = "ocr"]
    /\ UNCHANGED <<mergeVars, unitVars, valVars, calls, batchVars>>

FormReturn(t) ==
    /\ pc[t] = "pf_return"
    /\ caller[t] = "form"
    /\ pc' = [pc EXCEPT ![t] = IF Raised(ret[t]) THEN "form_raised" ELSE "form_return"]
    /\ UNCHANGED <<mergeVars, unitVars, valVars, caller, calls, batchVars, formVars>>

\* a client calls validator.validate_fields(data, ocr_result)
CallValidateFields(t) ==
    /\ pc[t] = "idle"
    /\ calls[t] < MaxCalls
    /\ \E d \in ValidateDatas : data' = [data EXCEPT ![t] = d]
    /\ \E o \in ValidateOcrs : ocr_result' = [ocr_result EXCEPT ![t] = o]
    /\ validated' = [validated EXCEPT ![t] = NotYet]
    /\ trace' = [trace EXCEPT ![t] = <<>>]
    /\ caller' = [caller EXCEPT ![t] = "validate"]
    /\ pc' = [pc EXCEPT ![t] = "v_warnings"]
    /\ UNCHANGED <<mergeVars, unitVars, valVars, calls, batchVars, file_path, ret>>

\* the list objects a record returned by process_form refers to
RecordRefs(r) ==
    IF "status" \in DOMAIN r /\ r.status = "success"
    THEN {r.validation.warnings, r.validation.empty_fields} ELSE {}

\* the list objects the frames of thread u refer to
Refs(u) ==
    (IF validated[u] # NotYet THEN {validated[u].warnings} ELSE {})
    \cup RecordRefs(ret[u])
    \cup UNION {RecordRefs(results[u][i]) : i \in 1..Len(results[u])}

\* the client takes the value a call returned and is free to call again;
\* the lists nothing refers to any more are reclaimed
ClientTakes(t) ==
    /\ pc[t] \in {"batch_return", "form_return", "validate_return"}
    /\ pc' = [pc EXCEPT ![t] = "idle"]
    /\ calls' = [calls EXCEPT ![t] = @ + 1]
    /\ caller' = [caller EXCEPT ![t] = "none"]
    /\ file_paths' = [file_paths EXCEPT ![t] = <<>>]
    /\ idx' = [idx EXCEPT ![t] = 0]
    /\ results' = [results EXCEPT ![t] = <<>>]
    /\ LeaveProcessForm(t)
    /\ LET live == {validator.warnings, validator.empty_fields}
                   \cup UNION {Refs(u) : u \in Threads \ {t}}
       IN  heap' = [i \in (DOMAIN heap \cap live) |-> heap[i]]
    /\ UNCHANGED <<mergeVars, unitVars, validator>>

ProcessFormSteps(t) ==
    \/ PF_Ocr(t) \/ PF_Extract(t)
    \/ V_Warnings(t) \/ V_EmptyFields(t) \/ V_Completeness(t) \/ V_Accuracy(t)
    \/ V_Formats(t) \/ V_Return(t)
    \/ PF_Assemble(t) \/ PF_Except(t)

InitIdle ==
    /\ extracted = Null
    /\ merged = NotYet
    /\ file_paths = [t \in Threads |-> <<>>]
    /\ InitPipeline
    /\ InitUnits

(***************************************************************************)
(* Spec: one client runs process_batch calls on a FormProcessor            *)
(***************************************************************************)
Init == InitIdle

Next ==
    \/ CallProcessBatch(1)
    \/ BatchLoop(1)
    \/ ProcessFormSteps(1)
    \/ BatchAppend(1)
    \/ ClientTakes(1)

Spec == Init /\ [][Next]_vars

(***************************************************************************)
(* SpecCalls: one client calls process_form and validate_fields in turn    *)
(***************************************************************************)
NextCalls ==
    \/ CallProcessForm(1)
    \/ CallValidateFields(1)
    \/ ProcessFormSteps(1)
    \/ FormReturn(1)
    \/ ClientTakes(1)

SpecCalls == InitIdle /\ [][NextCalls]_vars

(***************************************************************************)
(* SpecPar: two clients each call process_form on the one FormProcessor    *)
(* that get_processor caches (streamlit_app.py 21-24)                      *)
(***************************************************************************)
\* the temporary file a session saves its upload to (streamlit_app.py 57-60)
TmpPath(t) == "tmp" \o ToString(t) \o ".pdf"

\* streamlit_app.py 54-64: a session processes its uploaded form
Upload(t) ==
    /\ pc[t] = "idle"
    /\ calls[t] = 0
    /\ EnterProcessForm(t, TmpPath(t))
    /\ caller' = [caller EXCEPT ![t] = "form"]
    /\ pc' = [pc EXCEPT ![t] = "ocr"]
    /\ UNCHANGED <<mergeVars, unitVars, valVars, calls, batchVars>>

\* streamlit_app.py 67: the session keeps the result
StoreResult(t) ==
    /\ pc[t] = "form_return"
    /\ pc' = [pc EXCEPT ![t] = "stored"]
    /\ calls' = [calls EXCEPT ![t] = @ + 1]
    /\ UNCHANGED <<mergeVars, unitVars, valVars, caller, batchVars, formVars>>

NextPar ==
    \E t \in Threads :
        \/ Upload(t)
        \/ ProcessFormSteps(t)
        \/ FormReturn(t)
        \/ StoreResult(t)

SpecPar == InitIdle /\ [][NextPar]_vars

(***************************************************************************)
(* SpecValidate: one validate_fields call on a newly constructed           *)
(* FieldValidator, with the record and the OCR result drawn from the       *)
(* input sets                                                              *)
(***************************************************************************)
InitValidate ==
    /\ extracted = Null
    /\ merged = NotYet
    /\ file_paths = [t \in Threads |-> <<>>]
    /\ validator = InitValidatorState.v
    /\ heap = InitValidatorState.h
    /\ pc = [t \in Threads |-> IF t = 1 THEN "v_warnings" ELSE "idle"]
    /\ caller = [t \in Threads |-> IF t = 1 THEN "validate" ELSE "none"]
    /\ calls = [t \in Threads |-> 0]
    /\ idx = [t \in Threads |-> 0]
    /\ results = [t \in Threads |-> <<>>]
    /\ file_path = [t \in Threads |-> ""]
    /\ \E d \in ValidatorRecords :
          data = [t \in Threads |-> IF t = 1 THEN d ELSE NotYet]
    /\ \E o \in ValidatorOcrs :
          ocr_result = [t \in Threads |-> IF t = 1 THEN o ELSE Null]
    /\ validated = [t \in Threads |-> NotYet]
    /\ ret = [t \in Threads |-> NotYet]
    /\ trace = [t \in Threads |-> <<>>]
    /\ InitUnits

NextValidate ==
    \/ V_Warnings(1) \/ V_EmptyFields(1) \/ V_Completeness(1)
    \/ V_Accuracy(1) \/ V_Formats(1) \/ V_Return(1)

SpecValidate == InitValidate /\ [][NextValidate]_vars

(***************************************************************************)
(* SpecClean: _clean_ocr_artifacts applied to a text, and again to what it *)
(* returned                                                                *)
(***************************************************************************)
Chunks == {"8", "5", " ", "\t\n", "12345678", "50123456", "a"}

RECURSIVE Concat(_)
Concat(parts) == IF parts = <<>> THEN "" ELSE Head(parts) \o Concat(Tail(parts))

\* line contents, cell contents, keys and values as the engine reads them
CleanSamples ==
    { "8550123456", "8 50123456", "8 501234567", "no phone here",
      "tel: 8 512345678 .", "tel:8512345678,8 \t512345678", "x8512345678",
      "8512345678x", "-8512345678-", "8 8512345678", "85 8 512345678",
      "8512345678 8512345678", "  a \t b\n", "8512345678.5" }

CleanTexts ==
    { Concat(parts) : parts \in UNION {[1..n -> Chunks] : n \in 0..MaxChunks} }
    \cup CleanSamples

InitClean ==
    /\ extracted = Null
    /\ merged = NotYet
    /\ file_paths = [t \in Threads |-> <<>>]
    /\ InitPipeline
    /\ cleanText \in CleanTexts
    /\ cleaned = NotYet /\ recleaned = NotYet
    /\ rawResult = Null /\ processed = NotYet
    /\ polygonIn = Null /\ polygonOut = NotYet
    /\ canonical = Null /\ text_parts = NotYet
    /\ config = 0 /\ attempts = <<>>

NotCleaning == <<mergeVars, valVars, pc, caller, calls, batchVars, formVars,
                 config, attempts,
                 rawResult, processed, polygonIn, polygonOut, canonical,
                 text_parts>>

\* cleaned = self._clean_ocr_artifacts(text)
CleanOcrArtifacts ==
    /\ cleaned = NotYet
    /\ cleaned' = Str(_clean_ocr_artifacts(cleanText))
    /\ UNCHANGED <<cleanText, recleaned, NotCleaning>>

\* the cleaner applied to its own result
CleanAgain ==
    /\ cleaned # NotYet
    /\ recleaned = NotYet
    /\ recleaned' = Str(_clean_ocr_artifacts(cleaned.v))
    /\ UNCHANGED <<cleanText, cleaned, NotCleaning>>

NextClean == CleanOcrArtifacts \/ CleanAgain

SpecClean == InitClean /\ [][NextClean]_vars

(***************************************************************************)
(* SpecPolygon: _normalize_polygon applied to one polygon                  *)
(***************************************************************************)
InitPolygon ==
    /\ extracted = Null
    /\ merged = NotYet
    /\ file_paths = [t \in Threads |-> <<>>]
    /\ InitPipeline
    /\ cleanText = "" /\ cleaned = NotYet /\ recleaned = NotYet
    /\ rawResult = Null /\ processed = NotYet
    /\ polygonIn \in Polygons
    /\ polygonOut = NotYet
    /\ canonical = Null /\ text_parts = NotYet
    /\ config = 0 /\ attempts = <<>>

NormalizePolygon ==
    /\ polygonOut = NotYet
    /\ polygonOut' = List(_normalize_polygon(polygonIn))
    /\ UNCHANGED <<mergeVars, valVars, pc, caller, calls, batchVars, formVars,
                   config, attempts,
                   cleanText, cleaned, recleaned, rawResult, processed,
                   polygonIn, canonical, text_parts>>

NextPolygon == NormalizePolygon

SpecPolygon == InitPolygon /\ [][NextPolygon]_vars

(***************************************************************************)
(* The end of process_document applied to the results of RawResults        *)
(***************************************************************************)
InitNormalize ==
    /\ extracted = Null
    /\ merged = NotYet
    /\ file_paths = [t \in Threads |-> <<>>]
    /\ InitPipeline
    /\ cleanText = "" /\ cleaned = NotYet /\ recleaned = NotYet
    /\ rawResult \in RawResults
    /\ processed = NotYet
    /\ polygonIn = Null /\ polygonOut = NotYet
    /\ canonical = Null /\ text_parts = NotYet
    /\ config = 0 /\ attempts = <<>>

ProcessResult ==
    /\ processed = NotYet
    /\ processed' = ReturnProcessed(rawResult)
    /\ UNCHANGED <<mergeVars, valVars, pc, caller, calls, batchVars, formVars,
                   config, attempts,
                   cleanText, cleaned, recleaned, rawResult,
                   polygonIn, polygonOut, canonical, text_parts>>

NextNormalize == ProcessResult

SpecNormalize == InitNormalize /\ [][NextNormalize]_vars

(***************************************************************************)
(* OCRProcessor.process_document: the loop over the configurations         *)
(***************************************************************************)
\* ocr_processor.py 36-65: model_id, features and locale of the four
\* configurations ("none" where the configuration has no such entry)
Configurations ==
    << [model_id |-> "prebuilt-layout", features |-> "selectionMarks", locale |-> "he"],
       [model_id |-> "prebuilt-layout", features |-> "none", locale |-> "he"],
       [model_id |-> "prebuilt-layout", features |-> "none", locale |-> "none"],
       [model_id |-> "prebuilt-document", features |-> "none", locale |-> "none"] >>

\* the loop has been left by break
LoopLeft == Len(Configurations) + 1

\* failures of the engine that are AzureError, and failures that are not
AzureErrors == {Exc("AzureError: InvalidRequest"), Exc("AzureError: ServiceUnavailable")}

OtherErrors == {Exc("ValueError"), Exc("TypeError")}

\* results poller.result() hands back
EngineResults ==
    { Inst(<<>>),
      Inst(<< <<"pages", List(<<Inst(<< <<"lines", List(<<RawLine>>)>> >>)>>)>> >>),
      Inst(<< <<"content", Str("all the text")>> >>) }

\* what begin_analyze_document(**config) followed by poller.result() can do
EngineOutcomes == EngineResults \cup AzureErrors \cup OtherErrors

\* the exception of the attempt leaves the loop: always, when it is not
\* caught by `except AzureError`
ConfigurationRaisesAnyError(i, out) == IsExc(out)

\* ocr_processor.py 67-81: the exception of attempt i leaves the loop: it is
\* no AzureError, or it is the AzureError of the last configuration
ConfigurationRaises(i, out) ==
    /\ IsExc(out)
    /\ out \notin AzureErrors \/ i = Len(Configurations)

\* ocr_processor.py 67-81: where the loop stands after attempt i
AfterAttempt(i, out) ==
    IF ~IsExc(out) THEN LoopLeft
    ELSE IF ConfigurationRaises(i, out) THEN i
    ELSE i + 1

InitOcr ==
    /\ extracted = Null
    /\ merged = NotYet
    /\ file_paths = [t \in Threads |-> <<>>]
    /\ InitPipeline
    /\ cleanText = "" /\ cleaned = NotYet /\ recleaned = NotYet
    /\ rawResult = Null /\ processed = NotYet
    /\ polygonIn = Null /\ polygonOut = NotYet
    /\ canonical = Null /\ text_parts = NotYet
    /\ config = 0 /\ attempts = <<>>

NotOcr == <<mergeVars, valVars, pc, caller, calls, batchVars, formVars,
            cleanText, cleaned, recleaned, polygonIn, polygonOut, canonical,
            text_parts>>

\* ocr_processor.py 29-33: open() and read() fail, or result = None
OpenDocument ==
    /\ config = 0
    /\ processed = NotYet
    /\ \/ /\ processed' = Exc("[Errno 2] No such file or directory")
          /\ UNCHANGED <<config, rawResult>>
       \/ /\ config' = 1
          /\ rawResult' = Null
          /\ UNCHANGED processed
    /\ UNCHANGED <<attempts, NotOcr>>

\* ocr_processor.py 67-81: one pass of the loop
TryConfiguration ==
    /\ config \in 1..Len(Configurations)
    /\ processed = NotYet
    /\ \E out \in EngineOutcomes :
          /\ attempts' = Append(attempts, [config |-> Configurations[config], outcome |-> out])
          /\ config' = AfterAttempt(config, out)
          /\ rawResult' = IF IsExc(out) THEN rawResult ELSE out
          /\ processed' = IF ConfigurationRaises(config, out) THEN out ELSE processed
    /\ UNCHANGED NotOcr

\* ocr_processor.py 83-91
FinishDocument ==
    /\ config = LoopLeft
    /\ processed = NotYet
    /\ processed' = ReturnProcessed(rawResult)
    /\ UNCHANGED <<config, attempts, rawResult, NotOcr>>

NextOcr == OpenDocument \/ TryConfiguration \/ FinishDocument

SpecOcr == InitOcr /\ [][NextOcr]_vars

(***************************************************************************)
(* _prepare_ocr_text_for_gpt applied to canonical results whose lines      *)
(* carry no polygon or polygons above, at and below y = 0                  *)
(***************************************************************************)
\* lines of distinct content: without polygon, and with polygons whose
\* mean y is -2, 0 (twice: y = 0, 0 and y = -1, 1) and 3
LinePool ==
    << Line(Str("a"), <<>>, 1),
       Line(Str("b"), <<Point(0, -3), Point(4, -1)>>, 1),
       Line(Str("c"), <<Point(0, 0), Point(4, 0)>>, 1),
       Line(Str("d"), <<Point(0, -1), Point(4, 1)>>, 1),
       Line(Str("e"), <<Point(0, 2), Point(4, 4)>>, 1) >>

\* the orders in which up to MaxLines different lines of the pool appear
LineOrders ==
    { o \in UNION {[1..k -> 1..Len(LinePool)] : k \in 0..MaxLines} :
        \A i, j \in DOMAIN o : i # j => o[i] # o[j] }

\* the lines of a page in the order the engine reported them
LineSeqs == { [i \in 1..Len(o) |-> LinePool[o[i]]] : o \in LineOrders }

\* the dict built by OCRProcessor._process_result from pages of lines
Canonical(pages) ==
    LET lines == Flatten([p \in 1..Len(pages) |-> Lookup(pages[p], "lines").v])
    IN  Obj(<< <<"pages", List(pages)>>,
               <<"paragraphs", List(<<>>)>>,
               <<"tables", List(<<>>)>>,
               <<"selection_marks", List(<<>>)>>,
               <<"key_value_pairs", List(<<>>)>>,
               <<"lines", List(lines)>>,
               <<"words", List(<<>>)>>,
               <<"content", List([i \in 1..Len(lines) |-> Lookup(lines[i], "content")])>> >>)

\* one page, and two pages reported as page 2 then page 1
Canonicals ==
    {Canonical(<<>>)}
    \cup {Canonical(<<Page(1, <<>>, lines, <<>>)>>) : lines \in LineSeqs}
    \cup {Canonical(<<Page(2, <<>>, lines, <<>>),
                      Page(1, <<>>, <<Line(Str("z"), <<Point(0, 1)>>, 1)>>, <<>>)>>) :
            lines \in LineSeqs}

InitProject ==
    /\ extracted = Null
    /\ merged = NotYet
    /\ file_paths = [t \in Threads |-> <<>>]
    /\ InitPipeline
    /\ cleanText = "" /\ cleaned = NotYet /\ recleaned = NotYet
    /\ rawResult = Null /\ processed = NotYet
    /\ polygonIn = Null /\ polygonOut = NotYet
    /\ canonical \in Canonicals
    /\ text_parts = NotYet
    /\ config = 0 /\ attempts = <<>>

PrepareOcrText ==
    /\ text_parts = NotYet
    /\ text_parts' = IF LineContentUnusable(canonical) THEN Exc("AttributeError")
                     ELSE List([i \in 1..Len(TextParts(canonical)) |->
                                  Str(TextParts(canonical)[i])])
    /\ UNCHANGED <<mergeVars, valVars, pc, caller, calls, batchVars, formVars,
                   config, attempts,
                   cleanText, cleaned, recleaned, rawResult, processed,
                   polygonIn, polygonOut, canonical>>

NextProject == PrepareOcrText

SpecProject == InitProject /\ [][NextProject]_vars

(***************************************************************************)
(* _prepare_ocr_text_for_gpt applied to canonical results with selection   *)
(* marks, key-value pairs, tables and flat content                         *)
(***************************************************************************)
\* mark_info of OCRProcessor._process_result
Mark(state, page_number) ==
    Obj(<< <<"state", state>>, <<"polygon", List(<<>>)>>,
           <<"confidence", Num(0)>>, <<"page_number", Num(page_number)>> >>)

\* the dict of OCRProcessor._process_key_value
KeyValue(key, value) ==
    Obj(<< <<"key", Str(key)>>, <<"value", Str(value)>>, <<"confidence", Num(0)>> >>)

\* the dicts of OCRProcessor._process_table
Cell(content) ==
    Obj(<< <<"row_index", Num(0)>>, <<"column_index", Num(0)>>,
           <<"content", Str(content)>>, <<"row_span", Num(1)>>,
           <<"column_span", Num(1)>> >>)

Table(cells) ==
    Obj(<< <<"row_count", Num(1)>>, <<"column_count", Num(Len(cells))>>,
           <<"cells", List(cells)>> >>)

\* the dict built by OCRProcessor._process_result from pages, tables,
\* key-value pairs and the content of the whole result ("" when it has none)
CanonicalWith(pages, tables, kv_pairs, content) ==
    LET lines == Flatten([p \in 1..Len(pages) |-> Lookup(pages[p], "lines").v])
    IN  Obj(<< <<"pages", List(pages)>>,
               <<"paragraphs", List(<<>>)>>,
               <<"tables", List(tables)>>,
               <<"selection_marks",
                 List(Flatten([p \in 1..Len(pages) |->
                                 Lookup(pages[p], "selection_marks").v]))>>,
               <<"key_value_pairs", List(kv_pairs)>>,
               <<"lines", List(lines)>>,
               <<"words", List(<<>>)>>,
               <<"content",
                 List([i \in 1..Len(lines) |-> Lookup(lines[i], "content")]
                      \o (IF content # "" THEN <<Str(content)>> ELSE <<>>))>> >>)

\* the states the engine reports for a mark
MarkStates == {Str("selected"), Str("unselected")}

\* up to MaxMarks marks of a page
MarkSeqs(page_number) ==
    { [i \in 1..Len(states) |-> Mark(states[i], page_number)] :
        states \in UNION {[1..n -> MarkStates] : n \in 0..MaxMarks} }

\* the lines of a page: none, one, and one followed by a blank one
SectionLineSeqs ==
    { <<>>, <<Line(Str("dan"), <<>>, 1)>>,
      <<Line(Str("dan  cohen"), <<>>, 1), Line(Str(" "), <<>>, 1)>> }

\* no page, one page, and two pages
SectionPages ==
    {<<>>}
    \cup { <<Page(1, <<>>, lines, marks)>> :
             lines \in SectionLineSeqs, marks \in MarkSeqs(1) }
    \cup { <<Page(1, <<>>, lines, marks),
             Page(2, <<>>, <<Line(Str("haifa"), <<>>, 2)>>, <<Mark(Str("selected"), 2)>>)>> :
             lines \in SectionLineSeqs, marks \in MarkSeqs(1) }

\* pairs the normalizer keeps: key and value, only a key, only a value
SectionKeyValues ==
    { <<>>,
      <<KeyValue("name", "dan")>>,
      <<KeyValue("city", ""), KeyValue("", "haifa"), KeyValue("id", "8 5 12345678")>> }

SectionTables ==
    { <<>>, <<Table(<<>>)>>,
      <<Table(<<Cell("cell  1"), Cell("")>>), Table(<<Cell("cell 2")>>)>> }

SectionCanonicals ==
    { CanonicalWith(pages, tables, kv_pairs, content) :
        pages \in SectionPages, tables \in SectionTables,
        kv_pairs \in SectionKeyValues, content \in {"", "all the text"} }

InitSections ==
    /\ extracted = Null
    /\ merged = NotYet
    /\ file_paths = [t \in Threads |-> <<>>]
    /\ InitPipeline
    /\ cleanText = "" /\ cleaned = NotYet /\ recleaned = NotYet
    /\ rawResult = Null /\ processed = NotYet
    /\ polygonIn = Null /\ polygonOut = NotYet
    /\ canonical \in SectionCanonicals
    /\ text_parts = NotYet
    /\ config = 0 /\ attempts = <<>>

SpecSections == InitSections /\ [][NextProject]_vars

(***************************************************************************)
(* Properties of the merger                                                *)
(***************************************************************************)
Returned(x) == x # NotYet /\ ~IsExc(x)

KeysOf(d) == {d.v[i][1] : i \in 1..Len(d.v)}

\* x has exactly the keys of template, once each, at every nesting level
RECURSIVE SameShape(_, _)
SameShape(x, template) ==
    /\ x.t = "obj"
    /\ Len(x.v) = Len(template.v)
    /\ KeysOf(x) = KeysOf(template)
    /\ \A i \in 1..Len(template.v) :
          template.v[i][2].t = "obj" =>
              SameShape(Lookup(x, template.v[i][1]), template.v[i][2])

\* every value of x at a leaf position of template is a str
RECURSIVE LeavesAreStrings(_, _)
LeavesAreStrings(x, template) ==
    /\ x.t = "obj"
    /\ \A i \in 1..Len(template.v) :
          LET key == template.v[i][1]
          IN  HasKey(x, key) =>
                 IF template.v[i][2].t = "obj"
                 THEN LeavesAreStrings(Lookup(x, key), template.v[i][2])
                 ELSE Lookup(x, key).t = "str"

\* C6: whenever the merger returns, its output has exactly the template's
\* key set at every nesting level: extra keys of the input are dropped and
\* template keys the input lacks are present.
C6_ShapeInvariance ==
    Returned(merged) => SameShape(merged, _get_empty_result)

C6_Witness ==
    /\ Returned(merged)
    /\ extracted.t = "obj"
    /\ HasKey(extracted, "extraKey")
    /\ ~HasKey(extracted, "lastName")
    /\ HasKey(extracted, "dateOfBirth")
    /\ Lookup(extracted, "dateOfBirth").t = "obj"
    /\ HasKey(Lookup(extracted, "dateOfBirth"), "bogus")
    /\ ~HasKey(merged, "extraKey")
    /\ HasKey(merged, "lastName")

\* C7: whenever the merger returns, every leaf of its output is a string,
\* also where the input held a number, a boolean, a list or an object.
C7_LeavesAreStrings ==
    Returned(merged) => LeavesAreStrings(merged, _get_empty_result)

C7_Witness ==
    /\ Returned(merged)
    /\ extracted.t = "obj"
    /\ HasKey(extracted, "lastName")
    /\ HasKey(extracted, "mobilePhone")
    /\ Lookup(extracted, "lastName").t \in {"num", "bool"}
    /\ Lookup(extracted, "mobilePhone").t \in {"list", "obj"}
    /\ Lookup(merged, "lastName").t = "str"
    /\ Lookup(merged, "mobilePhone").t = "str"

\* C8: the merger never raises, whatever parsed JSON it is given.
C8_MergeIsTotal == ~IsExc(merged)

\* the value the claim gives the leaf `key` read from `container`
ClaimedLeaf(container, key) ==
    IF container.t # "obj" \/ ~HasKey(container, key) THEN Str("")
    ELSE IF Lookup(container, key) = Null THEN Str("")
    ELSE IF Lookup(container, key) = Str("null") THEN Str("")
    ELSE Str(PyStr(Lookup(container, key)))

\* C9: whenever the merger returns, each leaf is "" when the input lacks the
\* key or holds null or the text "null" there, and str() of the input's
\* value otherwise (top-level leaves and the leaves of nested structures).
C9_LeafRule ==
    Returned(merged) =>
        \A i \in 1..Len(_get_empty_result.v) :
            LET key == _get_empty_result.v[i][1]
                value == _get_empty_result.v[i][2]
            IN  IF value.t # "obj"
                THEN Lookup(merged, key) = ClaimedLeaf(extracted, key)
                ELSE \A j \in 1..Len(value.v) :
                        Lookup(Lookup(merged, key), value.v[j][1]) =
                            ClaimedLeaf(DictGet(IF extracted.t = "obj" THEN extracted
                                                ELSE Obj(<<>>), key, Obj(<<>>)),
                                        value.v[j][1])

C9_Witness ==
    /\ Returned(merged)
    /\ extracted.t = "obj"
    /\ HasKey(extracted, "lastName")
    /\ HasKey(extracted, "dateOfBirth")
    /\ Lookup(extracted, "lastName") = Str("null")
    /\ Lookup(merged, "lastName") = Str("")
    /\ Lookup(extracted, "dateOfBirth").t = "obj"
    /\ HasKey(Lookup(extracted, "dateOfBirth"), "year")
    /\ Lookup(Lookup(merged, "dateOfBirth"), "day") = Str("3")
    /\ Lookup(Lookup(merged, "dateOfBirth"), "month") = Str("")
    /\ Lookup(Lookup(merged, "dateOfBirth"), "year") = Str("")

(***************************************************************************)
(* Properties of process_form and process_batch                            *)
(***************************************************************************)
Has(tr, event) == \E i \in 1..Len(tr) : tr[i] = event

ErrorDescriptions ==
    {"AzureError", "AttributeError"}
    \cup {"[Errno 2] No such file or directory: '" \o path \o "'" : path \in Paths}

\* C1: process_form never raises: whatever stage failed, it returns a record
\* with status success or error, and an error record carries a description
\* and the canonical empty FieldRecord as data.
C1_AlwaysReturnsRecord ==
    \A t \in Threads :
        /\ pc[t] \notin {"form_raised", "batch_raised"}
        /\ pc[t] \in {"pf_return", "form_return"} =>
              /\ ~Raised(ret[t])
              /\ ret[t].status \in {"success", "error"}
              /\ ret[t].status = "error" =>
                    /\ DOMAIN ret[t] = {"status", "error", "data"}
                    /\ ret[t].error \in ErrorDescriptions
                    /\ ret[t].data = _get_empty_result

C1_Witness ==
    /\ pc[1] = "pf_return"
    /\ Has(trace[1], "project")
    /\ ~Has(trace[1], "gpt_call")
    /\ ret[1].status = "error"
    /\ ret[1].error = "AttributeError"
    /\ ret[1].data = _get_empty_result

\* C2: when the extraction-model call fails or its answer does not parse as
\* JSON, process_form still validates and returns status success with the
\* canonical empty FieldRecord as data.
C2_ExtractionFailureDegrades ==
    \A t \in Threads :
        (/\ pc[t] = "pf_return"
         /\ \/ Has(trace[t], "gpt_call_failed")
            \/ Has(trace[t], "Failed to parse GPT response as JSON"))
        => /\ ~Raised(ret[t])
           /\ ret[t].status = "success"
           /\ ret[t].data = _get_empty_result
           /\ Has(trace[t], "validate")

C2_Witness ==
    /\ pc[1] = "pf_return"
    /\ Has(trace[1], "Failed to parse GPT response as JSON")
    /\ ret[1].status = "success"
    /\ ret[1].data = _get_empty_result

StageRank(event) ==
    CASE event = "ocr" -> 1
      [] event = "project" -> 2
      [] event = "gpt_call" -> 3
      [] event = "merge" -> 4
      [] event = "validate" -> 5
      [] event = "result" -> 6
      [] OTHER -> 0

\* C3: the stages of one process_form run in the order OCR, projection,
\* extraction-model call, merge, validation, result, each at most once; the
\* model is not called after a failed OCR, and validation and the result
\* come only after the extraction call.
C3_StageOrder ==
    \A t \in Threads :
        /\ \A i, j \in 1..Len(trace[t]) :
              (i < j /\ StageRank(trace[t][i]) > 0 /\ StageRank(trace[t][j]) > 0)
                  => StageRank(trace[t][i]) < StageRank(trace[t][j])
        /\ Has(trace[t], "ocr_failed") => ~Has(trace[t], "gpt_call")
        /\ Has(trace[t], "validate") => Has(trace[t], "gpt_call")
        /\ Has(trace[t], "gpt_call") => Has(trace[t], "ocr") /\ Has(trace[t], "project")
        /\ Has(trace[t], "result") => Has(trace[t], "validate")

C3_Witness ==
    /\ pc[1] = "pf_return"
    /\ trace[1] = <<"ocr", "project", "gpt_call", "merge", "validate", "result">>

\* the record results[i] is the one process_form produced for path
BelongsTo(result, path) ==
    /\ result.status = "success" => result.metadata.file_path = path
    /\ (result.status = "error" /\ result.error \notin {"AzureError", "AttributeError"})
          => result.error = "[Errno 2] No such file or directory: '" \o path \o "'"

\* C5: process_batch returns one result per input path, in input order; a
\* document that fails yields an error record and the loop goes on.
C5_BatchOneResultPerPath ==
    /\ pc[1] # "batch_raised"
    /\ caller[1] = "batch" =>
          /\ Len(results[1]) = idx[1] - 1
          /\ \A i \in 1..Len(results[1]) : BelongsTo(results[1][i], file_paths[1][i])
    /\ pc[1] = "batch_return" => Len(results[1]) = Len(file_paths[1])

C5_Witness ==
    /\ pc[1] = "batch_return"
    /\ Len(results[1]) = 2
    /\ file_paths[1][1] # file_paths[1][2]
    /\ results[1][1].status = "error"
    /\ results[1][2].status = "success"

(***************************************************************************)
(* Properties of the validator                                             *)
(***************************************************************************)
\* the validation block of a success record, lists by content
ValidationBlock(r) ==
    [warnings |-> heap[r.validation.warnings],
     empty_fields |-> heap[r.validation.empty_fields],
     completeness_score |-> r.validation.completeness_score,
     accuracy_score |-> r.validation.accuracy_score]

\* C4: when two process_form calls on one FormProcessor interleave, each
\* returned record's validation block is the one computed from its own
\* document.
C4_ParallelValidationIsOwn ==
    \A t \in Threads :
        (pc[t] \in {"form_return", "stored"} /\ ret[t].status = "success") =>
            /\ ValidationBlock(ret[t]) = Report(FreshValidate(ret[t].data, ocr_result[t]))
            /\ ret[t].validation.has_warnings =
                   (Report(FreshValidate(ret[t].data, ocr_result[t])).warnings # <<>>)

\* C10: when validate_fields returns, the validator's warnings, empty_fields
\* and two scores are those a new validator holds after that one call.
C10_ReportRecomputed ==
    pc[1] \in {"assemble", "validate_return"} =>
        Report(VS) = Report(FreshValidate(data[1], ocr_result[1]))

C10_Witness ==
    /\ pc[1] = "validate_return"
    /\ calls[1] >= 1
    /\ heap[validator.warnings] = <<>>
    /\ \E id \in DOMAIN heap :
          /\ id \notin {validator.warnings, validator.empty_fields}
          /\ Has(heap[id], "Invalid mobile phone format")
    /\ \E id \in DOMAIN heap :
          /\ id \notin {validator.warnings, validator.empty_fields}
          /\ Has(heap[id], "firstName")
          /\ Len(heap[id]) # Len(heap[validator.empty_fields])

(***************************************************************************)
(* Properties of one validate_fields call (SpecValidate)                   *)
(***************************************************************************)
\* the call of thread 1 has returned
ValidateReturned == pc[1] = "validate_return"

\* the dotted paths of the leaves of a record, in the order of its keys
RECURSIVE LeafPaths(_, _)
LeafPaths(d, prefix) ==
    Flatten([i \in 1..Len(d.v) |->
               IF d.v[i][2].t = "obj"
               THEN LeafPaths(d.v[i][2], prefix \o d.v[i][1] \o ".")
               ELSE <<prefix \o d.v[i][1]>>])

\* C11 as stated: validating the canonical empty FieldRecord gives a
\* completeness score of 0.0 and an emptyFields list of 36 paths, one per
\* schema leaf, in the fixed order.
C11_EmptyRecordHas36Paths ==
    (ValidateReturned /\ data[1] = _get_empty_result) =>
        /\ validator.completeness_score = <<0, 1>>
        /\ heap[validator.empty_fields] = LeafPaths(_get_empty_result, "")
        /\ Len(heap[validator.empty_fields]) = 36

\* C11 amended: validating the canonical empty FieldRecord gives a
\* completeness score of 0.0 and an emptyFields list of the 35 fixed
\* paths, one per schema leaf, in the fixed order.
C11_EmptyRecordHas35Paths ==
    (ValidateReturned /\ data[1] = _get_empty_result) =>
        /\ validator.completeness_score = <<0, 1>>
        /\ heap[validator.empty_fields] = LeafPaths(_get_empty_result, "")
        /\ Len(heap[validator.empty_fields]) = 35

C11_Witness ==
    /\ ValidateReturned
    /\ data[1] = _get_empty_result
    /\ Len(heap[validator.empty_fields]) = 35
    /\ heap[validator.empty_fields][14] = "address.poBox"

\* the value a path of keys leads to in a record; Missing when a key is
\* absent or a value on the way is no object
RECURSIVE ValueAt(_, _)
ValueAt(d, keys) ==
    IF keys = <<>> THEN d
    ELSE IF d.t # "obj" THEN Missing
    ELSE IF ~HasKey(d, Head(keys)) THEN Missing
    ELSE ValueAt(Lookup(d, Head(keys)), Tail(keys))

\* filled as the claim words it: the value is there, is not null, and its
\* text without surrounding whitespace is not empty
ClaimedFilled(d, path) ==
    LET value == ValueAt(d, SplitDot(path))
    IN  /\ value # Missing
        /\ value # Null
        /\ \E i \in 1..Len(PyStr(value)) : ~IsSpace(CharAt(PyStr(value), i))

\* C12: a fixed path counts as filled exactly when its resolved value,
\* stringified and trimmed, is non-empty (whitespace-only, missing and null
\* values are unfilled); the completeness score is filled/total x 100,
\* emptyFields is exactly the unfilled paths in the fixed iteration order,
\* and a record with every fixed path filled scores exactly 100.0.
C12_Completeness ==
    ValidateReturned =>
        LET total == Len(fields_to_check)
            filled == {i \in 1..total : ClaimedFilled(data[1], fields_to_check[i])}
            unfilled == SelectSeq(fields_to_check,
                                  LAMBDA path : ~ClaimedFilled(data[1], path))
        IN  /\ validator.completeness_score = Rat(Cardinality(filled) * 100, total)
            /\ heap[validator.empty_fields] = unfilled
            /\ Cardinality(filled) = total
                   => validator.completeness_score = <<100, 1>>

C12_Witness ==
    /\ ValidateReturned
    /\ data[1] = SetPath(AllFilled, <<"dateOfBirth", "day">>, Str("\t\n  "))
    /\ validator.completeness_score = Rat(34 * 100, 35)
    /\ heap[validator.empty_fields] = <<"dateOfBirth.day">>

\* the words of an OCR result; none when the result is absent
WordsOf(ocr) ==
    IF ocr = Null THEN <<>> ELSE DictGet(ocr, "words", List(<<>>)).v

\* C13: the accuracy score is 50.0 whenever ocrResult is absent, or has no
\* words, or none of its words carries a confidence value; otherwise it is
\* 100 times the mean of the confidences of the words that carry one.
C13_ConfidenceScore ==
    ValidateReturned =>
        LET carrying == SelectSeq(WordsOf(ocr_result[1]),
                                  LAMBDA word : Confidence(word) # Null)
        IN  validator.accuracy_score =
                IF carrying = <<>> THEN <<50, 1>>
                ELSE Rat(SumConfidence(carrying), Len(carrying))

IdWarned ==
    \E i \in 1..Len(heap[validator.warnings]) :
        StartsWith(heap[validator.warnings][i], "Invalid ID number length")

MobileWarned ==
    \E i \in 1..Len(heap[validator.warnings]) :
        heap[validator.warnings][i] = "Invalid mobile phone format"

\* the text of a field of the record, "" when the record has no such key
FieldText(d, key) == DictGet(d, key, Str("")).v

\* C14 as stated: an identifier warning is appended exactly when the number
\* of digit characters in idNumber is neither 9 nor 10.
C14_IdWarningByDigitCount ==
    ValidateReturned =>
        (IdWarned <=> Len(DigitsOf(FieldText(data[1], "idNumber"))) \notin {9, 10})

\* C14 amended: an identifier warning is appended exactly when idNumber is
\* not empty and the number of its digit characters is neither 9 nor 10
\* (8 and 11 digits warn, 9 and 10 do not, an empty idNumber does not).
C14_IdWarningWhenNonEmpty ==
    ValidateReturned =>
        (IdWarned <=> /\ FieldText(data[1], "idNumber") # ""
                      /\ Len(DigitsOf(FieldText(data[1], "idNumber"))) \notin {9, 10})

C14_Witness ==
    /\ ValidateReturned
    /\ FieldText(data[1], "idNumber") = "1234-5678"
    /\ heap[validator.warnings][1] = "Invalid ID number length: 8 digits"

\* exactly 10 digits starting with 05
MobileWellFormed(text) ==
    LET digits == DigitsOf(text)
    IN  Len(digits) = 10 /\ SubSeq(digits, 1, 2) = "05"

\* C15 as stated: a mobile-phone warning is appended exactly when the
\* digits of mobilePhone are not exactly 10 digits starting with 05.
C15_MobileWarningByDigits ==
    ValidateReturned =>
        (MobileWarned <=> ~MobileWellFormed(FieldText(data[1], "mobilePhone")))

\* C15 amended: a mobile-phone warning is appended exactly when mobilePhone
\* is not empty and its digits are not exactly 10 digits starting with 05
\* (no warning for "0551234567", a warning for "85123456789", none for an
\* empty mobilePhone).
C15_MobileWarningWhenNonEmpty ==
    ValidateReturned =>
        (MobileWarned <=> /\ FieldText(data[1], "mobilePhone") # ""
                          /\ ~MobileWellFormed(FieldText(data[1], "mobilePhone")))

C15_Witness ==
    /\ ValidateReturned
    /\ FieldText(data[1], "mobilePhone") = "85123456789"
    /\ MobileWarned

(***************************************************************************)
(* Properties of _clean_ocr_artifacts (SpecClean)                          *)
(***************************************************************************)
\* C16: clean is idempotent: clean(clean(x)) = clean(x) for every text x.
C16_CleanIdempotent ==
    recleaned # NotYet => recleaned = cleaned

C16_Witness ==
    /\ cleanText = "8\t\n512345678"
    /\ cleaned = Str("0512345678")
    /\ recleaned = Str("0512345678")

Gaps == {"", " ", "\t\n", " \t\n", "  "}

EightDigits == {"12345678", "50123456"}

\* the spaced variant: a word-bounded 8, optional whitespace, 5 and 8 digits
\* becomes 05 and those 8 digits, alone and between other words
SpacedVariantRepaired ==
    \A g \in Gaps, d \in EightDigits :
        /\ cleanText = "8" \o g \o "5" \o d => cleaned = Str("05" \o d)
        /\ cleanText = "tel: 8" \o g \o "5" \o d \o " ."
               => cleaned = Str("tel: 05" \o d \o " .")

\* C17 as stated: the spaced variant is repaired, and in particular
\* clean("8 50123456") = "0550123456".
C17_SpacedVariantAndExample ==
    cleaned # NotYet =>
        /\ SpacedVariantRepaired
        /\ cleanText = "8 50123456" => cleaned = Str("0550123456")

\* C17 amended: the spaced variant is repaired, and in particular
\* clean("8 501234567") = "0501234567"; "8 50123456" has only 7 digits after
\* the 5 and is returned unchanged.
C17_SpacedVariantRepaired ==
    cleaned # NotYet =>
        /\ SpacedVariantRepaired
        /\ cleanText = "8 501234567" => cleaned = Str("0501234567")
        /\ cleanText = "8 50123456" => cleaned = Str("8 50123456")

C17_Witness ==
    /\ cleanText = "8 501234567"
    /\ cleaned = Str("0501234567")

(***************************************************************************)
(* Properties of _normalize_polygon (SpecPolygon)                          *)
(***************************************************************************)
\* a polygon in the flat encoding: its entries are single coordinates
FlatEncoded(polygon) ==
    \A i \in 1..Len(polygon) : polygon[i].t \in {"num", "bool", "str", "null"}

\* the point of a well-formed entry of a list of points, <<>> for a bad one
WellFormedPoint(p) ==
    LET xy == IF p.t \in {"inst", "obj"} /\ HasKey(p, "x") /\ HasKey(p, "y")
              THEN <<Lookup(p, "x"), Lookup(p, "y")>>
              ELSE IF p.t = "list" /\ Len(p.v) >= 2 THEN <<p.v[1], p.v[2]>>
              ELSE <<>>
    IN  IF xy # <<>> /\ Convertible(xy[1]) /\ Convertible(xy[2])
        THEN <<Point(Float(xy[1]), Float(xy[2]))>> ELSE <<>>

\* the points of the well-formed entries of a polygon, in their order
WellFormedPoints(polygon) ==
    IF FlatEncoded(polygon)
    THEN Flatten([k \in 1..(Len(polygon) \div 2) |->
                    WellFormedPoint(List(<<polygon[2 * k - 1], polygon[2 * k]>>))])
    ELSE Flatten([i \in 1..Len(polygon) |-> WellFormedPoint(polygon[i])])

\* C19: bad entries of a polygon are skipped one by one: the result holds
\* the points of all well-formed entries in their original order, and the
\* polygon as a whole is never discarded because of one bad entry.
C19_BadEntriesSkippedIndividually ==
    (polygonOut # NotYet /\ polygonIn.t = "list") =>
        polygonOut = List(WellFormedPoints(polygonIn.v))

(***************************************************************************)
(* Properties of OCRProcessor.process_document's normalization             *)
(***************************************************************************)
\* a root that is no analysis result at all
Unusable(root) == root \in UnusableRoots

RECURSIVE HoldsNone(_)
\* some field or entry inside the value is None
HoldsNone(x) ==
    \/ x = Null
    \/ /\ x.t \in {"inst", "obj"}
       /\ \E i \in 1..Len(x.v) : HoldsNone(x.v[i][2])
    \/ /\ x.t = "list"
       /\ \E i \in 1..Len(x.v) : HoldsNone(x.v[i])

\* C18: a root that is no usable structure makes the normalizer raise
\* MalformedInputError, while an analysis result whose optional fields are
\* merely missing is normalized without an exception.
C18_MalformedRootRaises ==
    processed # NotYet =>
        /\ Unusable(rawResult) => processed = Exc("MalformedInputError")
        /\ (rawResult \in AnalysisResults /\ ~HoldsNone(rawResult)) => ~IsExc(processed)

\* the half of C18 the code does keep: missing optional fields never raise
MissingFieldsAreNotErrors ==
    (processed # NotYet /\ rawResult \in AnalysisResults /\ ~HoldsNone(rawResult))
        => ~IsExc(processed)

\* the empty canonical result
EmptyCanonical ==
    Obj(<< <<"pages", List(<<>>)>>, <<"paragraphs", List(<<>>)>>,
           <<"tables", List(<<>>)>>, <<"selection_marks", List(<<>>)>>,
           <<"key_value_pairs", List(<<>>)>>, <<"lines", List(<<>>)>>,
           <<"words", List(<<>>)>>, <<"content", List(<<>>)>> >>)

\* an unusable root is never answered with MalformedInputError: a falsy
\* one raises the plain Exception, a truthy one returns the empty result
UnusableRootOutcome ==
    (processed # NotYet /\ Unusable(rawResult)) =>
        processed = IF PyTruthy(rawResult) THEN EmptyCanonical
                    ELSE Exc("Failed to process document with any configuration")

(***************************************************************************)
(* Properties of FormProcessor._prepare_ocr_text_for_gpt                   *)
(***************************************************************************)
\* the index of the first entry of text_parts equal to the text, 0 if none
PartIndex(text) ==
    IF \E i \in 1..Len(text_parts.v) : text_parts.v[i] = Str(text)
    THEN CHOOSE i \in 1..Len(text_parts.v) :
            /\ text_parts.v[i] = Str(text)
            /\ \A j \in 1..(i - 1) : text_parts.v[j] # Str(text)
    ELSE 0

PagesOf(ocr) == Lookup(ocr, "pages").v

LinesOf(page) == Lookup(page, "lines").v

PageHeader(page) == "\n=== PAGE " \o PyStr(Lookup(page, "page_number")) \o " ==="

\* the line has a polygon with at least one y
Positioned(line) ==
    \E i \in 1..Len(Lookup(line, "polygon").v) : HasKey(Lookup(line, "polygon").v[i], "y")

\* the mean y of a positioned line, as <<sum, count>>
MeanY(line) ==
    LET polygon == Lookup(line, "polygon").v
    IN  <<SumY(polygon), Cardinality({i \in 1..Len(polygon) : HasKey(polygon[i], "y")})>>

EmittedBefore(line1, line2) ==
    PartIndex(Lookup(line1, "content").v) < PartIndex(Lookup(line2, "content").v)

\* the header of every page is followed by the lines of that page, and
\* these by the header of the next page
PageOrderPreserved ==
    LET pages == PagesOf(canonical)
    IN  \A p \in 1..Len(pages) :
          /\ PartIndex(PageHeader(pages[p])) > 0
          /\ \A i \in 1..Len(LinesOf(pages[p])) :
                LET at == PartIndex(Lookup(LinesOf(pages[p])[i], "content").v)
                IN  /\ PartIndex(PageHeader(pages[p])) < at
                    /\ p < Len(pages) => at < PartIndex(PageHeader(pages[p + 1]))
          /\ p < Len(pages) =>
                PartIndex(PageHeader(pages[p])) < PartIndex(PageHeader(pages[p + 1]))

\* C20: the projection keeps the pages in their order and, within each
\* page, emits the lines in ascending order of the mean y of their
\* polygon, a line without polygon before every positioned line of its
\* page, whatever the coordinates are (mean y of 0 or below included).
C20_LinesAscendingUnpositionedFirst ==
    text_parts # NotYet =>
        /\ ~IsExc(text_parts)
        /\ PageOrderPreserved
        /\ \A p \in 1..Len(PagesOf(canonical)) :
              \A i, j \in 1..Len(LinesOf(PagesOf(canonical)[p])) :
                 LET line1 == LinesOf(PagesOf(canonical)[p])[i]
                     line2 == LinesOf(PagesOf(canonical)[p])[j]
                 IN  /\ (~Positioned(line1) /\ Positioned(line2))
                           => EmittedBefore(line1, line2)
                     /\ (Positioned(line1) /\ Positioned(line2)
                           /\ ~MeanLE(MeanY(line2), MeanY(line1)))
                           => EmittedBefore(line1, line2)

\* what the code does keep: page order, and ascending order of the sort
\* key, which is 0 for a line without polygon
LinesAscendingBySortKey ==
    text_parts # NotYet =>
        /\ ~IsExc(text_parts)
        /\ PageOrderPreserved
        /\ \A p \in 1..Len(PagesOf(canonical)) :
              \A i, j \in 1..Len(LinesOf(PagesOf(canonical)[p])) :
                 LET line1 == LinesOf(PagesOf(canonical)[p])[i]
                     line2 == LinesOf(PagesOf(canonical)[p])[j]
                 IN  ~MeanLE(_get_line_y_pos(line2), _get_line_y_pos(line1))
                        => EmittedBefore(line1, line2)

\* with every positioned line strictly below y = 0 on the page (mean y
\* above 0) the order is the claimed one
PositiveLinesAsClaimed ==
    LET pages == PagesOf(canonical)
        lines(p) == LinesOf(pages[p])
    IN  (text_parts # NotYet
         /\ \A p \in 1..Len(pages) : \A i \in 1..Len(lines(p)) :
               Positioned(lines(p)[i]) => MeanY(lines(p)[i])[1] > 0)
        => \A p \in 1..Len(pages) : \A i, j \in 1..Len(lines(p)) :
              /\ (~Positioned(lines(p)[i]) /\ Positioned(lines(p)[j]))
                    => EmittedBefore(lines(p)[i], lines(p)[j])
              /\ (Positioned(lines(p)[i]) /\ Positioned(lines(p)[j])
                    /\ ~MeanLE(MeanY(lines(p)[j]), MeanY(lines(p)[i])))
                    => EmittedBefore(lines(p)[i], lines(p)[j])

(***************************************************************************)
(* Properties of the sections of the projected text                        *)
(***************************************************************************)
CheckboxHeader == "\n=== CHECKBOXES ==="
KeyValueHeader == "\n=== KEY-VALUE PAIRS ==="
TableHeader == "\n=== TABLE CONTENT ==="
ContentHeader == "\n=== ALL OCR CONTENT ==="
CheckboxMarker == "CHECKED checkbox found"

\* the section a header opens (1 page lines, 2 checkboxes, 3 key-value
\* pairs, 4 table cells, 5 flat content), 0 for a text that is no header
SectionRank(text) ==
    CASE \E p \in 1..Len(PagesOf(canonical)) : text = PageHeader(PagesOf(canonical)[p]) -> 1
      [] text = CheckboxHeader -> 2
      [] text = KeyValueHeader -> 3
      [] text = TableHeader -> 4
      [] text = ContentHeader -> 5
      [] OTHER -> 0

PartText(i) == text_parts.v[i].v

\* the section the i-th entry of text_parts stands in: that of the last
\* header up to it
SectionAt(i) ==
    LET headers == {j \in 1..i : SectionRank(PartText(j)) > 0}
    IN  IF headers = {} THEN 0
        ELSE SectionRank(PartText(CHOOSE j \in headers : \A k \in headers : k <= j))

\* the entries of a section that are no header
EntriesOf(section) ==
    {i \in 1..Len(text_parts.v) : SectionAt(i) = section /\ SectionRank(PartText(i)) = 0}

MarksOf(ocr) ==
    Flatten([p \in 1..Len(PagesOf(ocr)) |-> Lookup(PagesOf(ocr)[p], "selection_marks").v])

SelectedMarks(ocr) ==
    {i \in 1..Len(MarksOf(ocr)) : Lookup(MarksOf(ocr)[i], "state") = Str("selected")}

\* the texts each section draws its entries from
LineTexts(ocr) ==
    {_clean_ocr_artifacts(PyStrip(Lookup(LinesOf(PagesOf(ocr)[p])[i], "content").v)) :
        <<p, i>> \in {<<p, i>> \in (1..Len(PagesOf(ocr))) \X (1..(MaxLines + 1)) :
                        i <= Len(LinesOf(PagesOf(ocr)[p]))}}

KeyValuesOf(ocr) == Lookup(ocr, "key_value_pairs").v

KeyValueLine(kv) ==
    _clean_ocr_artifacts(Lookup(kv, "key").v) \o " → "
        \o _clean_ocr_artifacts(Lookup(kv, "value").v)

KeyValueTexts(ocr) == {KeyValueLine(KeyValuesOf(ocr)[i]) : i \in 1..Len(KeyValuesOf(ocr))}

CellsOf(ocr) ==
    Flatten([t \in 1..Len(Lookup(ocr, "tables").v) |->
               Lookup(Lookup(ocr, "tables").v[t], "cells").v])

CellTexts(ocr) ==
    {_clean_ocr_artifacts(Lookup(CellsOf(ocr)[i], "content").v) : i \in 1..Len(CellsOf(ocr))}

ContentTexts(ocr) ==
    {_clean_ocr_artifacts(PyStrip(Lookup(ocr, "content").v[i].v)) :
        i \in 1..Len(Lookup(ocr, "content").v)}

SectionTexts(ocr, section) ==
    CASE section = 1 -> LineTexts(ocr)
      [] section = 2 -> {CheckboxMarker}
      [] section = 3 -> KeyValueTexts(ocr)
      [] section = 4 -> CellTexts(ocr)
      [] OTHER -> ContentTexts(ocr)

\* C21: in the projected text the sections stand in the order page lines,
\* checkbox markers, key-value lines, table cells, flat content; every
\* entry stands in the section its text comes from, so nothing of a later
\* section precedes an entry of an earlier one; the checkbox section holds
\* exactly one marker per selected mark and none for unselected marks.
C21_SectionsInFixedOrder ==
    text_parts # NotYet =>
        /\ ~IsExc(text_parts)
        /\ \A i \in 1..Len(text_parts.v) : SectionAt(i) > 0
        /\ \A i, j \in 1..Len(text_parts.v) : i < j => SectionAt(i) <= SectionAt(j)
        /\ \A section \in 2..5 :
              Cardinality({i \in 1..Len(text_parts.v) : SectionRank(PartText(i)) = section}) <= 1
        /\ \A section \in 1..5 : \A i \in EntriesOf(section) :
              PartText(i) \in SectionTexts(canonical, section)
        /\ Cardinality(EntriesOf(2)) = Cardinality(SelectedMarks(canonical))
        /\ (SelectedMarks(canonical) = {}) =>
              \A i \in 1..Len(text_parts.v) : PartText(i) # CheckboxHeader

\* a projected text with all five sections, from a result with a selected
\* and an unselected mark
C21_Witness ==
    /\ text_parts # NotYet
    /\ ~IsExc(text_parts)
    /\ \A section \in 1..5 : EntriesOf(section) # {}
    /\ SelectedMarks(canonical) # {}
    /\ Len(MarksOf(canonical)) > Cardinality(SelectedMarks(canonical))

\* the pair is one OCRProcessor._process_key_value returns: key and value
\* are not both empty
KeptByNormalizer(kv) == Lookup(kv, "key") # Str("") \/ Lookup(kv, "value") # Str("")

\* C22: the key-value section holds one `key → value` line for every
\* key-value pair of the canonical result (the pairs whose key and value
\* are not both empty, a pair with only a key or only a value included),
\* so there are as many key-value lines as canonical key-value pairs.
C22_OneLinePerKeyValuePair ==
    (/\ text_parts # NotYet
     /\ \A i \in 1..Len(KeyValuesOf(canonical)) : KeptByNormalizer(KeyValuesOf(canonical)[i]))
    => /\ ~IsExc(text_parts)
       /\ Cardinality(EntriesOf(3)) = Len(KeyValuesOf(canonical))
       /\ \A i \in 1..Len(KeyValuesOf(canonical)) :
             \E j \in EntriesOf(3) : PartText(j) = KeyValueLine(KeyValuesOf(canonical)[i])

\* what the code does: a line for every pair with both a key and a value
OneLinePerCompletePair ==
    text_parts # NotYet =>
        Cardinality(EntriesOf(3)) =
            Cardinality({i \in 1..Len(KeyValuesOf(canonical)) :
                           /\ Lookup(KeyValuesOf(canonical)[i], "key") # Str("")
                           /\ Lookup(KeyValuesOf(canonical)[i], "value") # Str("")})

(***************************************************************************)
(* Properties of process_document's loop over the configurations           *)
(***************************************************************************)
Succeeded(attempt) == ~IsExc(attempt.outcome)

FailedInEngine(attempt) == attempt.outcome \in AzureErrors

FailedOtherwise(attempt) == IsExc(attempt.outcome) /\ attempt.outcome \notin AzureErrors

LastAttempt == attempts[Len(attempts)]

\* C23: the configurations are tried in the order of the list; a
\* configuration is tried only after every earlier one failed with an
\* AzureError; the first success supplies the result and ends the loop;
\* when all four fail with an AzureError the last one is raised; any other
\* failure is raised at once and no further configuration is tried.
C23_ConfigurationFallback ==
    /\ Len(attempts) <= Len(Configurations)
    /\ \A k \in 1..Len(attempts) : attempts[k].config = Configurations[k]
    /\ \A k \in 1..(Len(attempts) - 1) : FailedInEngine(attempts[k])
    /\ (attempts # <<>> /\ Succeeded(LastAttempt)) =>
          /\ rawResult = LastAttempt.outcome
          /\ config = LoopLeft
          /\ processed \in {NotYet, _process_result(LastAttempt.outcome)}
    /\ (attempts # <<>> /\ FailedOtherwise(LastAttempt)) => processed = LastAttempt.outcome
    /\ (attempts # <<>> /\ FailedInEngine(LastAttempt)) =>
          IF Len(attempts) = Len(Configurations)
          THEN processed = LastAttempt.outcome
          ELSE processed = NotYet /\ config = Len(attempts) + 1
    /\ (processed # NotYet /\ attempts # <<>>) =>
          \/ Succeeded(LastAttempt)
          \/ FailedOtherwise(LastAttempt)
          \/ Len(attempts) = Len(Configurations)

\* three configurations failed in the engine and the fourth succeeded, and
\* its result was returned
C23_Witness ==
    /\ Len(attempts) = Len(Configurations)
    /\ Succeeded(LastAttempt)
    /\ processed = _process_result(LastAttempt.outcome)

\* all four configurations failed in the engine, with different errors
AllConfigurationsFailed ==
    /\ Len(attempts) = Len(Configurations)
    /\ FailedInEngine(LastAttempt)
    /\ attempts[3].outcome # LastAttempt.outcome
    /\ processed = LastAttempt.outcome

\* a configuration failed with another error before the last one
OtherFailureEndsTheLoop ==
    /\ Len(attempts) = 2
    /\ FailedOtherwise(LastAttempt)
    /\ processed = LastAttempt.outcome

(***************************************************************************)
(* Properties of the records process_form has returned                     *)
(***************************************************************************)
\* what a reader of the record sees: the lists by their present content
RecordValue(r, h) ==
    IF "status" \in DOMAIN r /\ r.status = "success"
    THEN [status |-> r.status,
          data |-> r.data,
          warnings |-> h[r.validation.warnings],
          has_warnings |-> r.validation.has_warnings,
          completeness_score |-> r.validation.completeness_score,
          accuracy_score |-> r.validation.accuracy_score,
          empty_fields |-> h[r.validation.empty_fields],
          file_path |-> r.metadata.file_path]
    ELSE [status |-> r.status, data |-> r.data, error |-> r.error]

\* the records process_batch holds keep their values in this step
ReturnedRecordsUnchanged ==
    \A t \in Threads : \A i \in 1..Len(results[t]) :
        i <= Len(results'[t]) =>
            RecordValue(results'[t][i], heap') = RecordValue(results[t][i], heap)

\* C24: a record process_form has returned is not changed by the work the
\* same FormProcessor does afterwards: its data, warnings, has_warnings,
\* scores and empty_fields keep the values they had when it was returned.
C24_ReturnedRecordsAreStable == [][ReturnedRecordsUnchanged]_vars

\* two forms were processed one after the other by the same FormProcessor,
\* the first record carries warnings and empty fields, and the second
\* validation produced other lists
C24_Witness ==
    /\ Len(results[1]) = 2
    /\ results[1][1].status = "success"
    /\ results[1][2].status = "success"
    /\ heap[results[1][1].validation.warnings] # <<>>
    /\ heap[results[1][1].validation.empty_fields] # <<>>
    /\ results[1][1].validation.has_warnings
    /\ results[1][2].validation.warnings # results[1][1].validation.warnings
    /\ heap[results[1][2].validation.warnings] # heap[results[1][1].validation.warnings]
    /\ heap[results[1][2].validation.empty_fields] # heap[results[1][1].validation.empty_fields]

====
